---- MODULE Spec2Model ----
(***************************************************************************)
(* A model of the rollforward core of mandolbo/rollforward:                *)
(*   - calculate_table_dimension        (file_updater.py)                  *)
(*   - update_rollforward_status and generate_manual_adjustment_report     *)
(*     (file_updater.py), driven as main.py drives them                    *)
(*   - match_headers, enhanced_match_headers (header_matcher.py)           *)
(*   - find_tables, find_tabular_ranges_by_heuristics_optimized            *)
(*     (table_finder.py)                                                   *)
(*   - the operations of one run that write the prior-period workbook:     *)
(*     worksheet_full_replace (memory_efficient_copy.py),                  *)
(*     mark_back_data_red, update_file and the save of                     *)
(*     update_rollforward_status (file_updater.py), in main.py's order     *)
(*   - find_matching_worksheet_optimized (main.py)                         *)
(*   - add_rollforward_complete_workflow, the marking loops of             *)
(*     mark_back_data_red and the copy loop of update_file                 *)
(*     (file_updater.py)                                                   *)
(* Python strings are tuples of one-character strings, so that strip()     *)
(* and lower() are computed and not assumed.                               *)
(***************************************************************************)
EXTENDS Integers, Sequences, FiniteSets, TLC

(***************************************************************************)
(* State                                                                   *)
(***************************************************************************)

VARIABLES
    dim_pc,              \* "idle", "call", "scan", "done"
    dim_sheet,           \* the worksheet's segments
    dim_arg_limit,       \* the caller's empty_streak_limit argument
    table_info,          \* [start_row, headers]
    empty_streak_limit,  \* the parameter, as the function's body sees it
    row_num,             \* the loop variable of the row scan
    actual_max_row,
    empty_streak

dimVars == <<dim_pc, dim_sheet, dim_arg_limit, table_info, empty_streak_limit, row_num,
             actual_max_row, empty_streak>>

VARIABLES
    st_pc,               \* "idle", "marked", "updated", "reported"
    red_cells_info,
    successful_matches,  \* the list given to the last status update
    status_result,       \* what the last update_rollforward_status returned
    st_error,            \* how the last update ended: "none", "load", "save"
    report               \* what generate_manual_adjustment_report returned

statusVars == <<st_pc, red_cells_info, successful_matches, status_result, st_error,
                report>>

VARIABLES
    match_pc,            \* "idle", "call", "exact", "enhanced"
    previous_tables,     \* the prior-period (destination) tables given
    current_tables,      \* what find_tables(current_file_path) returned
    threshold,           \* the threshold of enhanced_match_headers
    matches              \* the list the matcher returned

matchVars == <<match_pc, previous_tables, current_tables, threshold, matches>>

VARIABLES
    find_pc,             \* "idle", "call", "done", "failed"
    workbook,            \* the worksheets of the file given to find_tables
    tables,              \* the list find_tables returned
    scanned,             \* the worksheet given to the heuristic scan, 0 for none
    candidates,          \* what find_tabular_ranges_by_heuristics_optimized returned
    col_call             \* a call of column_string_to_number: <<>> or its record

findVars == <<find_pc, workbook, tables, scanned, candidates, col_call>>

VARIABLES
    run_pc,              \* "idle", "replace", "mark", "update", "status", "done"
    backups,             \* the backup copies of the prior-period workbook on disk
    last_call,           \* what the last operation on that workbook did
    ws_call,             \* a call of find_matching_worksheet_optimized: <<>> or
                         \* [worksheet_name, current_files, result]
    wf_pc,               \* add_rollforward_complete_workflow: "idle", "call",
                         \* "marked", "returned"
    wf_matches,          \* the matches given to the workflow
    wf_result            \* the dict the workflow returned, <<>> before

runVars == <<run_pc, backups, last_call, ws_call, wf_pc, wf_matches, wf_result>>

VARIABLES
    mk_attr,             \* the attributes empty_count_<sheet> of the function
                         \* object mark_back_data_red, by sheet name
    mk_calls,            \* the calls of mark_back_data_red made so far
    mk_last              \* the tables given to the last call and what it marked

markVars == <<mk_attr, mk_calls, mk_last>>

VARIABLES
    cp_call              \* the copy loop of update_file: the worksheets of the
                         \* two files, the matches, and the cells written

copyVars == <<cp_call>>

vars == <<dimVars, statusVars, matchVars, findVars, runVars, markVars, copyVars>>

otherThanDim == <<statusVars, matchVars, findVars, runVars, markVars, copyVars>>

otherThanStatus == <<dimVars, matchVars, findVars, runVars, markVars, copyVars>>

otherThanMatch == <<dimVars, statusVars, findVars, runVars, markVars, copyVars>>

otherThanFind == <<dimVars, statusVars, matchVars, runVars, markVars, copyVars>>

otherThanRun == <<dimVars, statusVars, matchVars, findVars, markVars, copyVars>>

(***************************************************************************)
(* Strings and cell values                                                 *)
(***************************************************************************)

\* str.isspace() on one character
IsSpace(ch) == ch = " "

RECURSIVE LStrip(_)
\* str.lstrip()
LStrip(s) ==
    IF s = <<>> THEN <<>>
    ELSE IF IsSpace(Head(s)) THEN LStrip(Tail(s)) ELSE s

RECURSIVE RStrip(_)
\* str.rstrip()
RStrip(s) ==
    IF s = <<>> THEN <<>>
    ELSE IF IsSpace(s[Len(s)]) THEN RStrip(SubSeq(s, 1, Len(s) - 1)) ELSE s

\* str.strip()
Strip(s) == RStrip(LStrip(s))

\* A cell value: None, a str, an int, or a cell whose read raises.
None == [t |-> "none", s |-> <<>>, n |-> 0]

Str(s) == [t |-> "str", s |-> s, n |-> 0]

Num(n) == [t |-> "num", s |-> <<>>, n |-> n]

Err == [t |-> "err", s |-> <<>>, n |-> 0]

\* str(int) for the one-digit integers the model uses
Digits == <<"0", "1", "2", "3", "4", "5", "6", "7", "8", "9">>

\* str(v) for a value v that is not None
PyStr(v) == IF v.t = "str" THEN v.s ELSE <<Digits[v.n + 1]>>

(***************************************************************************)
(* Worksheets.  The rows of a sheet are run-length encoded: a sequence of  *)
(* segments [row |-> <<cells>>, len |-> n]; a cell outside every segment   *)
(* or beyond the cells of its row is empty (None).                         *)
(***************************************************************************)

RECURSIVE RowAt(_, _)
\* the cells of row r (r >= 1) of the segments segs
RowAt(segs, r) ==
    IF segs = <<>> THEN <<>>
    ELSE IF r <= Head(segs).len THEN Head(segs).row
    ELSE RowAt(Tail(segs), r - Head(segs).len)

\* sheet.cell(row, col).value
CellValue(segs, r, c) ==
    LET row == RowAt(segs, r) IN IF c <= Len(row) THEN row[c] ELSE None

RECURSIVE SumLen(_)
\* the number of the last row the segments describe
SumLen(segs) == IF segs = <<>> THEN 0 ELSE Head(segs).len + SumLen(Tail(segs))

\* the row number of the first row of segment i
SegFirst(segs, i) == SumLen(SubSeq(segs, 1, i - 1)) + 1

(***************************************************************************)
(* calculate_table_dimension                                               *)
(***************************************************************************)

max_scan_rows == 1000

\* the parameter check at the head of the function
LimitInRange(limit) == 1 <= limit /\ limit <= 10

\* the clamp of empty_streak_limit
ClampLimit(limit) == IF ~LimitInRange(limit) THEN 2 ELSE limit

\* cell_value is not None and str(cell_value).strip(); a read that raises is skipped
CellHasData(v) ==
    /\ v.t \notin {"none", "err"}
    /\ Strip(PyStr(v)) # <<>>

\* the inner column loop: row_has_data over columns min_col .. max_col
RowHasData(segs, r, max_col) ==
    \E c \in 1..max_col : CellHasData(CellValue(segs, r, c))

\* a mutation of StreakEnds: the streak must exceed the limit
StreakEndsLate(streak, limit) == streak > limit

\* if empty_streak >= empty_streak_limit: break
StreakEnds(streak, limit) == streak >= limit

\* the function's prologue, up to the row loop
EnterDimension ==
    /\ dim_pc = "call"
    /\ empty_streak_limit' = ClampLimit(empty_streak_limit)
    /\ actual_max_row' = table_info.start_row
    /\ empty_streak' = 0
    /\ row_num' = table_info.start_row + 1
    /\ dim_pc' = "scan"
    /\ UNCHANGED <<dim_sheet, dim_arg_limit, table_info>>
    /\ UNCHANGED otherThanDim

\* the loop's range is exhausted after this row
LastScanRow(r) == r + 1 >= table_info.start_row + 1 + max_scan_rows

\* one iteration of the row loop, and the return once the loop ends
ScanRow ==
    /\ dim_pc = "scan"
    /\ LET has == RowHasData(dim_sheet, row_num, Len(table_info.headers))
           streak == IF has THEN 0 ELSE empty_streak + 1
           stop == (~has /\ StreakEnds(streak, empty_streak_limit))
                   \/ LastScanRow(row_num)
       IN /\ actual_max_row' = IF has THEN row_num ELSE actual_max_row
          /\ empty_streak' = streak
          /\ dim_pc' = IF stop THEN "done" ELSE "scan"
          /\ row_num' = IF stop THEN row_num ELSE row_num + 1
    /\ UNCHANGED <<dim_sheet, dim_arg_limit, table_info, empty_streak_limit>>
    /\ UNCHANGED otherThanDim

DimNext == EnterDimension \/ ScanRow

(***************************************************************************)
(* The status tracker: update_rollforward_status,                          *)
(* _check_if_cell_was_updated and generate_manual_adjustment_report.       *)
(* red_cells_info is the dict of mark_back_data_red in insertion order: a  *)
(* sequence of [sheet, cells], cells a sequence of                         *)
(* [row, col, value, status].  A successful match is                       *)
(* [from_sheet, from_row, from_col, from_table]; a key the dict lacks has  *)
(* the value NoKey (what dict.get returns for it compares unequal to every *)
(* sheet name, row and column).                                            *)
(***************************************************************************)

NoKey == [sheet |-> "", headers |-> <<>>]

\* wb.sheetnames of the prior-period workbook
WbSheetNames == {"Sheet1", "Sheet2", "Summary"}

Letters == <<"A", "B", "C", "D", "E", "F", "G", "H", "I", "J", "K", "L", "M",
             "N", "O", "P", "Q", "R", "S", "T", "U", "V", "W", "X", "Y", "Z">>

RECURSIVE ColumnLetter(_)
\* the column letters of cell.coordinate
ColumnLetter(col) ==
    IF col <= 0 THEN <<>>
    ELSE ColumnLetter((col - 1) \div 26) \o <<Letters[((col - 1) % 26) + 1]>>

\* f"{sheet_name}!{cell.coordinate}"
CellAddress(sheet_name, row, col) == <<sheet_name, "!", ColumnLetter(col), row>>

\* _check_if_cell_was_updated: explicit coordinates first, then the column span
\* of any matched table on a sheet of that name
CheckIfCellWasUpdated(cell_info, succ, sheet_name) ==
    \/ \E i \in 1..Len(succ) :
        /\ succ[i].from_sheet = sheet_name
        /\ succ[i].from_row = cell_info.row
        /\ succ[i].from_col = cell_info.col
    \/ \E i \in 1..Len(succ) :
        /\ succ[i].from_table.sheet = sheet_name
        /\ cell_info.col <= Len(succ[i].from_table.headers)

\* the status a cell gets in the loop body of update_rollforward_status
NewStatus(cell_info, succ, sheet_name) ==
    IF CheckIfCellWasUpdated(cell_info, succ, sheet_name)
    THEN "completed" ELSE "failed"

\* red_cells_info after the loops of update_rollforward_status
UpdatedCells(info, succ) ==
    [k \in 1..Len(info) |->
        IF info[k].sheet \notin WbSheetNames THEN info[k]
        ELSE [info[k] EXCEPT !.cells =
                [i \in 1..Len(info[k].cells) |->
                    [info[k].cells[i] EXCEPT
                        !.status = NewStatus(info[k].cells[i], succ, info[k].sheet)]]]]

RECURSIVE Flatten(_)
\* the concatenation of a sequence of sequences
Flatten(ss) == IF ss = <<>> THEN <<>> ELSE Head(ss) \o Flatten(Tail(ss))

\* the dict appended to manual_adjustment_cells for a cell
AdjustmentEntry(c, sheet_name) ==
    [sheet |-> sheet_name, row |-> c.row, col |-> c.col,
     cell_address |-> CellAddress(sheet_name, c.row, c.col), value |-> c.value]

\* the entries of a sequence of cells of one sheet, in order
AdjustmentEntries(cells, sheet_name) ==
    [i \in 1..Len(cells) |-> AdjustmentEntry(cells[i], sheet_name)]

\* manual_adjustment_cells as update_rollforward_status collects them
ManualAdjustmentCells(info, succ) ==
    Flatten([k \in 1..Len(info) |->
        IF info[k].sheet \notin WbSheetNames THEN <<>>
        ELSE AdjustmentEntries(
                SelectSeq(info[k].cells,
                          LAMBDA c : ~CheckIfCellWasUpdated(c, succ, info[k].sheet)),
                info[k].sheet)])

EmptyResult == [green_cells |-> 0, red_cells |-> 0, manual_adjustment_needed |-> <<>>]

\* the dict update_rollforward_status returns when nothing raises
StatusResult(info, succ) ==
    LET manual == ManualAdjustmentCells(info, succ)
        processed == Flatten([k \in 1..Len(info) |->
                        IF info[k].sheet \notin WbSheetNames THEN <<>>
                        ELSE info[k].cells])
    IN [green_cells |-> Len(processed) - Len(manual),
        red_cells |-> Len(manual),
        manual_adjustment_needed |-> manual]

\* update_rollforward_status(file_path, red_cells_info, successful_matches); outcome says
\* whether load_workbook or wb.save raises
update_rollforward_status(succ, outcome) ==
    /\ st_pc \in {"marked", "updated", "reported"}
    /\ successful_matches' = succ
    /\ st_pc' = "updated"
    /\ report' = [canned |-> FALSE, cells |-> <<>>]
    /\ IF red_cells_info = <<>>
       THEN /\ status_result' = EmptyResult
            /\ st_error' = "none"
            /\ UNCHANGED red_cells_info
       ELSE IF outcome = "load"
       THEN /\ status_result' = EmptyResult
            /\ st_error' = "load"
            /\ UNCHANGED red_cells_info
       ELSE /\ red_cells_info' = UpdatedCells(red_cells_info, succ)
            /\ st_error' = outcome
            /\ status_result' = IF outcome = "save" THEN EmptyResult
                                ELSE StatusResult(red_cells_info, succ)
    /\ UNCHANGED otherThanStatus

\* manual_adjustment_cells as generate_manual_adjustment_report collects them
ReportCells(info, succ, loaded) ==
    IF info = <<>> \/ succ = <<>> \/ ~loaded THEN <<>>
    ELSE Flatten([k \in 1..Len(info) |->
            IF info[k].sheet \notin WbSheetNames THEN <<>>
            ELSE AdjustmentEntries(
                    SelectSeq(info[k].cells,
                              LAMBDA c : \/ c.status = "failed"
                                         \/ ~CheckIfCellWasUpdated(c, succ,
                                                                   info[k].sheet)),
                    info[k].sheet)])

\* generate_manual_adjustment_report(previous_file, red_cells_info,
\* successful_matches) with the list of the last update, as main calls it; the
\* report text lists the entries grouped by sheet, or is the canned message
generate_manual_adjustment_report(loaded) ==
    /\ st_pc = "updated"
    /\ LET cells == ReportCells(red_cells_info, successful_matches, loaded)
       IN report' = [canned |-> cells = <<>>, cells |-> cells]
    /\ st_pc' = "reported"
    /\ UNCHANGED <<red_cells_info, successful_matches, status_result, st_error>>
    /\ UNCHANGED otherThanStatus

(***************************************************************************)
(* header_matcher.py.  A table is the dict of find_tables; a confidence or *)
(* score is a fraction [num, den] compared by cross-multiplication.        *)
(***************************************************************************)

Rat(n, d) == [num |-> n, den |-> d]

RatGeq(a, b) == a.num * b.den >= b.num * a.den

RatGt(a, b) == a.num * b.den > b.num * a.den

RatEq(a, b) == a.num * b.den = b.num * a.den

LowerLetters == <<"a", "b", "c", "d", "e", "f", "g", "h", "i", "j", "k", "l", "m",
                  "n", "o", "p", "q", "r", "s", "t", "u", "v", "w", "x", "y", "z">>

\* str.lower() on one character
LowerChar(ch) ==
    IF \E i \in 1..26 : Letters[i] = ch
    THEN LowerLetters[CHOOSE i \in 1..26 : Letters[i] = ch]
    ELSE ch

\* str.lower()
Lower(s) == [i \in 1..Len(s) |-> LowerChar(s[i])]

\* a in b, for strings
IsSubstring(a, b) ==
    \E i \in 0..(Len(b) - Len(a)) : SubSeq(b, i + 1, i + Len(a)) = a

RECURSIVE Words(_)
\* set(s.split())
Words(s) ==
    LET t == LStrip(s)
    IN IF t = <<>> THEN {}
       ELSE LET ends == {i \in 1..Len(t) : IsSpace(t[i])} \cup {Len(t) + 1}
                n == CHOOSE i \in ends : \A j \in ends : i <= j
            IN {SubSeq(t, 1, n - 1)} \cup Words(SubSeq(t, n, Len(t)))

Max(a, b) == IF a >= b THEN a ELSE b

Min(a, b) == IF a <= b THEN a ELSE b

\* a mutation of HeaderIn: membership ignoring case and outer spaces
HeaderInFolded(h, headers) ==
    \E i \in 1..Len(headers) : Lower(Strip(headers[i])) = Lower(Strip(h))

\* header in table['headers']
HeaderIn(h, headers) == \E i \in 1..Len(headers) : headers[i] = h

\* a mutation of ExactPairMatches: the loop runs over the prior-period headers
ExactPairMatchesByPrev(prev_table, curr_table) ==
    LET hs == SelectSeq(prev_table.headers, LAMBDA h : HeaderIn(h, curr_table.headers))
    IN [k \in 1..Len(hs) |->
          [from_table |-> curr_table, to_table |-> prev_table,
           from_header |-> hs[k], to_header |-> hs[k], confidence |-> Rat(1, 1)]]

\* the header loop of match_headers for one (prev_table, curr_table)
ExactPairMatches(prev_table, curr_table) ==
    LET hs == SelectSeq(curr_table.headers, LAMBDA h : HeaderIn(h, prev_table.headers))
    IN [k \in 1..Len(hs) |->
          [from_table |-> curr_table, to_table |-> prev_table,
           from_header |-> hs[k], to_header |-> hs[k], confidence |-> Rat(1, 1)]]

\* the list match_headers returns: prev_table-major, curr_table-minor
ExactMatches(prev_tables, curr_tables) ==
    Flatten([i \in 1..Len(prev_tables) |->
        Flatten([j \in 1..Len(curr_tables) |->
            ExactPairMatches(prev_tables[i], curr_tables[j])])])

\* simple_similarity_match with the containment test made one way only
SimilarityOneWay(header1, header2) ==
    LET h1 == Strip(Lower(header1))
        h2 == Strip(Lower(header2))
        words1 == Words(h1)
        words2 == Words(h2)
        common_words == words1 \cap words2
    IN IF h1 = h2 THEN Rat(1, 1)
       ELSE IF IsSubstring(h1, h2) THEN Rat(8, 10)
       ELSE IF common_words # {}
            THEN Rat(Cardinality(common_words),
                     Max(Cardinality(words1), Cardinality(words2)))
       ELSE Rat(0, 1)

\* simple_similarity_match
simple_similarity_match(header1, header2) ==
    LET h1 == Strip(Lower(header1))
        h2 == Strip(Lower(header2))
        words1 == Words(h1)
        words2 == Words(h2)
        common_words == words1 \cap words2
    IN IF h1 = h2 THEN Rat(1, 1)
       ELSE IF IsSubstring(h1, h2) \/ IsSubstring(h2, h1) THEN Rat(8, 10)
       ELSE IF common_words # {}
            THEN Rat(Cardinality(common_words),
                     Max(Cardinality(words1), Cardinality(words2)))
       ELSE Rat(0, 1)

RECURSIVE BestMatch(_, _, _, _)
\* the inner loop of enhanced_match_headers: [best_match, best_score] after the
\* headers hs, from the state best
BestMatch(prev_header, hs, thr, best) ==
    IF hs = <<>> THEN best
    ELSE LET score == simple_similarity_match(prev_header, Head(hs))
         IN BestMatch(prev_header, Tail(hs), thr,
                IF RatGeq(score, thr) /\ RatGt(score, best.best_score)
                THEN [best_match |-> Head(hs), best_score |-> score]
                ELSE best)

\* the header loop of enhanced_match_headers for one (prev_table, curr_table);
\* best_match starts as None and an empty best_match is dropped
EnhancedPairMatches(prev_table, curr_table, thr) ==
    LET best(h) == BestMatch(h, curr_table.headers, thr,
                             [best_match |-> <<>>, best_score |-> Rat(0, 1)])
        hs == SelectSeq(prev_table.headers, LAMBDA h : best(h).best_match # <<>>)
    IN [k \in 1..Len(hs) |->
          [from_table |-> prev_table, to_table |-> curr_table,
           from_header |-> hs[k], to_header |-> best(hs[k]).best_match,
           confidence |-> best(hs[k]).best_score]]

\* the list enhanced_match_headers returns
EnhancedMatches(prev_tables, curr_tables, thr) ==
    Flatten([i \in 1..Len(prev_tables) |->
        Flatten([j \in 1..Len(curr_tables) |->
            EnhancedPairMatches(prev_tables[i], curr_tables[j], thr)])])

\* match_headers(previous_tables, current_file_path)
match_headers ==
    /\ match_pc = "call"
    /\ matches' = ExactMatches(previous_tables, current_tables)
    /\ match_pc' = "exact"
    /\ UNCHANGED <<previous_tables, current_tables, threshold>>
    /\ UNCHANGED otherThanMatch

\* enhanced_match_headers(previous_tables, current_file_path, threshold)
enhanced_match_headers(thr) ==
    /\ match_pc = "call"
    /\ threshold' = thr
    /\ matches' = EnhancedMatches(previous_tables, current_tables, thr)
    /\ match_pc' = "enhanced"
    /\ UNCHANGED <<previous_tables, current_tables>>
    /\ UNCHANGED otherThanMatch

(***************************************************************************)
(* table_finder.py: range addressing.  A range string is a tuple of        *)
(* characters; a function that raises returns [ok |-> FALSE].              *)
(***************************************************************************)

\* the position of x in the tuple seq, 0 when it is not there
IndexOf(x, seq) ==
    IF \E i \in 1..Len(seq) : seq[i] = x
    THEN CHOOSE i \in 1..Len(seq) : seq[i] = x
    ELSE 0

\* ord(ch) for the characters of range strings: digits, letters, ":", "$", " "
Ord(ch) ==
    CASE IndexOf(ch, Digits) > 0 -> 47 + IndexOf(ch, Digits)
      [] IndexOf(ch, Letters) > 0 -> 64 + IndexOf(ch, Letters)
      [] IndexOf(ch, LowerLetters) > 0 -> 96 + IndexOf(ch, LowerLetters)
      [] ch = ":" -> 58
      [] ch = "$" -> 36
      [] ch = " " -> 32

\* chr(code) for the codes of the upper-case letters
Chr(code) == Letters[code - 64]

IsUpper(ch) == Ord(ch) >= Ord("A") /\ Ord(ch) <= Ord("Z")

IsDigit(ch) == Ord(ch) >= Ord("0") /\ Ord(ch) <= Ord("9")

RECURSIVE DecStr(_)
\* str(n) for an int n >= 0
DecStr(n) ==
    IF n < 10 THEN <<Digits[n + 1]>>
    ELSE DecStr(n \div 10) \o <<Digits[(n % 10) + 1]>>

RECURSIVE ParseInt(_)
\* int(s) for a string of digits
ParseInt(s) ==
    IF s = <<>> THEN 0
    ELSE ParseInt(SubSeq(s, 1, Len(s) - 1)) * 10 + (Ord(s[Len(s)]) - Ord("0"))

RECURSIVE column_string_to_number(_)
\* result = result * 26 + (ord(char) - ord('A') + 1) over the characters in order:
\* the value of all but the last character, times 26, plus the last one's
column_string_to_number(col_str) ==
    IF col_str = <<>> THEN 0
    ELSE column_string_to_number(SubSeq(col_str, 1, Len(col_str) - 1)) * 26
         + (Ord(col_str[Len(col_str)]) - Ord("A") + 1)

\* the length of the longest prefix of s made of upper-case letters
UpperRun(s) ==
    CHOOSE n \in 0..Len(s) :
        /\ \A i \in 1..n : IsUpper(s[i])
        /\ n < Len(s) => ~IsUpper(s[n + 1])

\* the length of the longest prefix of s made of digits
DigitRun(s) ==
    CHOOSE n \in 0..Len(s) :
        /\ \A i \in 1..n : IsDigit(s[i])
        /\ n < Len(s) => ~IsDigit(s[n + 1])

\* re.match of one or more upper-case letters, then one or more digits, at the
\* start of cell_ref; then int(row_str) and the column number
parse_cell_reference(cell_ref) ==
    LET u == UpperRun(cell_ref)
        rest == SubSeq(cell_ref, u + 1, Len(cell_ref))
        d == DigitRun(rest)
    IN IF u = 0 \/ d = 0 THEN [ok |-> FALSE, row |-> 0, col |-> 0]
       ELSE [ok |-> TRUE, row |-> ParseInt(SubSeq(rest, 1, d)),
             col |-> column_string_to_number(SubSeq(cell_ref, 1, u))]

\* the positions of the colons of range_str
Colons(range_str) == {i \in 1..Len(range_str) : range_str[i] = ":"}

NoRange == [ok |-> FALSE, start_row |-> 0, end_row |-> 0, start_col |-> 0, end_col |-> 0]

\* raises without a colon, when split(':') does not give two parts, and when a
\* corner does not parse
parse_excel_range(range_str) ==
    IF Cardinality(Colons(range_str)) # 1 THEN NoRange
    ELSE LET c == CHOOSE i \in Colons(range_str) : TRUE
             a == parse_cell_reference(SubSeq(range_str, 1, c - 1))
             b == parse_cell_reference(SubSeq(range_str, c + 1, Len(range_str)))
         IN IF ~a.ok \/ ~b.ok THEN NoRange
            ELSE [ok |-> TRUE, start_row |-> a.row, end_row |-> b.row,
                  start_col |-> a.col, end_col |-> b.col]

\* a corner of the form letters digits and nothing else
WholeCell(cell_ref) ==
    LET u == UpperRun(cell_ref)
    IN /\ u > 0
       /\ u < Len(cell_ref)
       /\ DigitRun(SubSeq(cell_ref, u + 1, Len(cell_ref))) = Len(cell_ref) - u

\* openpyxl's range_boundaries for "A1:C3" and for the single cell "A1"; any
\* other string raises
range_boundaries(range_ref) ==
    LET cs == Colons(range_ref)
        c == IF cs = {} THEN Len(range_ref) + 1 ELSE CHOOSE i \in cs : TRUE
        first == SubSeq(range_ref, 1, c - 1)
        second == IF cs = {} THEN first ELSE SubSeq(range_ref, c + 1, Len(range_ref))
    IN IF Cardinality(cs) > 1 \/ ~WholeCell(first) \/ ~WholeCell(second) THEN NoRange
       ELSE LET a == parse_cell_reference(first)
                b == parse_cell_reference(second)
            IN [ok |-> TRUE, start_row |-> a.row, end_row |-> b.row,
                start_col |-> a.col, end_col |-> b.col]

(***************************************************************************)
(* table_finder.py: header extraction and candidate detection.  A          *)
(* worksheet is [title, cells, auto_filter, sized]: cells the segments,    *)
(* auto_filter the filter's ref or <<>> without a filter, sized whether    *)
(* calculate_dimension() succeeds on the read-only sheet.                  *)
(***************************************************************************)

\* the cell could not be read, or value is None or str(value).strip() is empty
BlankHeaderCell(v) == v.t \in {"none", "err"} \/ Strip(PyStr(v)) = <<>>

\* _is_likely_merged_cell at the 1-based index i: the next cell is blank
IsLikelyMergedCell(header_cells, i) ==
    i + 1 <= Len(header_cells) /\ BlankHeaderCell(header_cells[i + 1])

\* _is_likely_merged_continuation at the 1-based index i
IsLikelyMergedContinuation(header_cells, i) ==
    \/ i > 1 /\ ~BlankHeaderCell(header_cells[i - 1])
    \/ \E back_step \in 2..(Min(4, i) - 1) :
            /\ ~BlankHeaderCell(header_cells[i - back_step])
            /\ \A check_idx \in (i - back_step + 1)..(i - 1) :
                    BlankHeaderCell(header_cells[check_idx])

\* last_valid_header when cell i is processed, <<>> for None
LastValidHeader(header_cells, i) ==
    LET before == {j \in 1..(i - 1) : ~BlankHeaderCell(header_cells[j])}
    IN IF before = {} THEN <<>>
       ELSE Strip(PyStr(header_cells[CHOOSE j \in before : \A k \in before : k <= j]))

\* what the loop over header_cells appends for cell i
HeaderAt(header_cells, i) ==
    LET v == header_cells[i]
        last_valid_header == LastValidHeader(header_cells, i)
    IN IF ~BlankHeaderCell(v) THEN Strip(PyStr(v))
       ELSE IF v.t \notin {"none", "err"}
       THEN IF last_valid_header # <<>> /\ IsLikelyMergedCell(header_cells, i)
            THEN last_valid_header ELSE <<>>
       ELSE IF last_valid_header # <<>> /\ IsLikelyMergedContinuation(header_cells, i)
            THEN last_valid_header ELSE <<>>

\* the headers of the first row of range_ref: the advanced method, which keeps
\* the entries h with h.strip(); with none of them the positional fallback
\* finds none either; an unparsable range gives []
extract_headers_from_range(sheet, range_ref) ==
    LET b == range_boundaries(range_ref)
    IN IF ~b.ok THEN <<>>
       ELSE LET header_cells ==
                    [i \in 1..(b.end_col - b.start_col + 1) |->
                        CellValue(sheet.cells, b.start_row, b.start_col + i - 1)]
                headers == [i \in 1..Len(header_cells) |-> HeaderAt(header_cells, i)]
            IN SelectSeq(headers, LAMBDA h : Strip(h) # <<>>)

\* the elements of the set of numbers S that are smallest and largest
SetMin(S) == CHOOSE x \in S : \A y \in S : x <= y

SetMax(S) == CHOOSE x \in S : \A y \in S : x >= y

\* the columns of a row that hold a value
ValueCols(row) == {c \in 1..Len(row) : row[c].t # "none"}

\* ws.calculate_dimension(): the bounding box of the cells that hold a value,
\* A1:A1 for an empty sheet
Dimension(segs) ==
    LET used == {i \in 1..Len(segs) : segs[i].len > 0 /\ ValueCols(segs[i].row) # {}}
    IN IF used = {}
       THEN [min_row |-> 1, max_row |-> 1, min_col |-> 1, max_col |-> 1]
       ELSE [min_row |-> SetMin({SegFirst(segs, i) : i \in used}),
             max_row |-> SetMax({SegFirst(segs, i) + segs[i].len - 1 : i \in used}),
             min_col |-> SetMin(UNION {ValueCols(segs[i].row) : i \in used}),
             max_col |-> SetMax(UNION {ValueCols(segs[i].row) : i \in used})]

\* min_row, scan_max_rows, min_col, scan_max_cols: from the dimension, or the
\* default window when calculate_dimension raises
ScanWindow(ws) ==
    IF ws.sized
    THEN LET d == Dimension(ws.cells)
         IN [min_row |-> d.min_row, scan_max_rows |-> Min(d.max_row, d.min_row + 1000),
             min_col |-> d.min_col, scan_max_cols |-> Min(d.max_col, d.min_col + 50)]
    ELSE [min_row |-> 1, scan_max_rows |-> 1001, min_col |-> 1, scan_max_cols |-> 51]

\* next(ws.iter_rows(min_row=r, max_row=r, min_col, max_col, values_only=True))
RowData(ws, w, r) ==
    LET row == RowAt(ws.cells, r)
    IN [i \in 1..(w.scan_max_cols - w.min_col + 1) |->
            IF w.min_col + i - 1 <= Len(row) THEN row[w.min_col + i - 1] ELSE None]

\* reading the row raises
RowRaises(row_data) == \E i \in 1..Len(row_data) : row_data[i].t = "err"

\* isinstance(v, str) and v.strip()
IsText(v) == v.t = "str" /\ Strip(v.s) # <<>>

TextCount(row_data) == Cardinality({i \in 1..Len(row_data) : IsText(row_data[i])})

\* v not in (None, "", 0)
NotEmpty(v) == ~(v.t = "none" \/ (v.t = "str" /\ v.s = <<>>) \/ (v.t = "num" /\ v.n = 0))

\* the row passes both header tests: text_count >= 3 and text_ratio >= 0.9
\* (the float quotients of these small integers compare as the fractions do)
IsHeaderRow(row_data) ==
    /\ ~RowRaises(row_data)
    /\ ~(TextCount(row_data) < 3)
    /\ ~RatGt(Rat(9, 10), Rat(TextCount(row_data), Len(row_data)))

RECURSIVE ContinuousDataCount(_, _, _, _, _)
\* the loop over the rows r .. last below a header: a row that raises is passed
\* over, a row under 30% ends the loop
ContinuousDataCount(ws, w, r, last, total_cells) ==
    IF r > last THEN 0
    ELSE LET data_row == RowData(ws, w, r)
             non_empty == Cardinality({i \in 1..Len(data_row) : NotEmpty(data_row[i])})
         IN IF RowRaises(data_row)
            THEN ContinuousDataCount(ws, w, r + 1, last, total_cells)
            ELSE IF RatGeq(Rat(non_empty, total_cells), Rat(3, 10))
            THEN 1 + ContinuousDataCount(ws, w, r + 1, last, total_cells)
            ELSE 0

\* continuous_data_count for the header row start_row
DataCountBelow(ws, w, start_row) ==
    ContinuousDataCount(ws, w, start_row + 1,
                        Min(start_row + 16, w.scan_max_rows + 1) - 1,
                        w.scan_max_cols - w.min_col + 1)

\* a/b + c/d
RatAdd(a, b) == Rat(a.num * b.den + b.num * a.den, a.den * b.den)

\* text_ratio + continuous_data_count * 0.1, no cap
ConfidenceUncapped(text_count, total_cells, continuous_data_count) ==
    RatAdd(Rat(text_count, total_cells), Rat(continuous_data_count, 10))

\* min(0.95, text_ratio + (continuous_data_count * 0.1))
HeuristicConfidence(text_count, total_cells, continuous_data_count) ==
    LET sum == RatAdd(Rat(text_count, total_cells), Rat(continuous_data_count, 10))
    IN IF RatGeq(sum, Rat(95, 100)) THEN Rat(95, 100) ELSE sum

\* [str(v).strip() for v in row_data if v is not None and str(v).strip()]
RowHeaders(row_data) ==
    LET kept == SelectSeq(row_data, LAMBDA v : v.t # "none" /\ Strip(PyStr(v)) # <<>>)
    IN [i \in 1..Len(kept) |-> Strip(PyStr(kept[i]))]

\* the candidate dict for the header row start_row
HeuristicCandidate(ws, w, start_row) ==
    LET row_data == RowData(ws, w, start_row)
        continuous_data_count == DataCountBelow(ws, w, start_row)
        headers == RowHeaders(row_data)
    IN [type |-> "heuristic",
        start_row |-> start_row,
        end_row |-> start_row + continuous_data_count,
        ref |-> <<Chr(64 + w.min_col)>> \o DecStr(start_row) \o <<":">>
                \o <<Chr(64 + w.min_col + Len(headers) - 1)>>
                \o DecStr(start_row + continuous_data_count),
        confidence |-> HeuristicConfidence(TextCount(row_data), Len(row_data),
                                           continuous_data_count),
        headers |-> headers]

\* the row start_row gets a candidate
EmitsCandidate(ws, w, start_row) ==
    /\ IsHeaderRow(RowData(ws, w, start_row))
    /\ DataCountBelow(ws, w, start_row) >= 2

\* the candidates of one worksheet, in row order
HeuristicCandidates(ws) ==
    LET w == ScanWindow(ws)
        rows == [i \in 1..(w.scan_max_rows - w.min_row + 1) |-> w.min_row + i - 1]
        hits == SelectSeq(rows, LAMBDA r : EmitsCandidate(ws, w, r))
    IN [i \in 1..Len(hits) |-> HeuristicCandidate(ws, w, hits[i])]

\* step 1 of find_tables on one worksheet: no candidate without a filter ref or
\* when parse_excel_range raises
AutoFilterCandidates(sheet, file_path) ==
    LET range_info == parse_excel_range(sheet.auto_filter)
    IN IF sheet.auto_filter = <<>> \/ ~range_info.ok THEN <<>>
       ELSE <<[sheet |-> sheet.title,
               type |-> "autofilter_range",
               name |-> None,
               ref |-> sheet.auto_filter,
               start_row |-> range_info.start_row,
               end_row |-> range_info.end_row,
               start_col |-> range_info.start_col,
               end_col |-> range_info.end_col,
               confidence |-> Rat(8, 10),
               file_path |-> file_path,
               headers |-> extract_headers_from_range(sheet, sheet.auto_filter)]>>

\* step 2 of find_tables on one worksheet: sheet and file_path are added
SheetHeuristicCandidates(sheet, file_path) ==
    LET cs == HeuristicCandidates(sheet)
    IN [i \in 1..Len(cs) |->
            [sheet |-> sheet.title,
             type |-> cs[i].type,
             ref |-> cs[i].ref,
             start_row |-> cs[i].start_row,
             end_row |-> cs[i].end_row,
             confidence |-> cs[i].confidence,
             file_path |-> file_path,
             headers |-> cs[i].headers]]

\* the pool when a filter range that cannot be parsed ends the whole call
PooledUntilFailure(wb, file_path) ==
    IF \E i \in 1..Len(wb) :
            wb[i].auto_filter # <<>> /\ ~parse_excel_range(wb[i].auto_filter).ok
    THEN <<>>
    ELSE Flatten([i \in 1..Len(wb) |-> AutoFilterCandidates(wb[i], file_path)])
         \o Flatten([i \in 1..Len(wb) |-> SheetHeuristicCandidates(wb[i], file_path)])

\* tables before the sort: the filter ranges of all sheets, then the heuristic
\* candidates of all sheets
PooledTables(wb, file_path) ==
    Flatten([i \in 1..Len(wb) |-> AutoFilterCandidates(wb[i], file_path)])
    \o Flatten([i \in 1..Len(wb) |-> SheetHeuristicCandidates(wb[i], file_path)])

\* the list left as it was pooled
KeepOrder(ts) == ts

RECURSIVE InsertByConfidence(_, _)
\* t goes behind every element whose confidence is not below its own
InsertByConfidence(t, sorted) ==
    IF sorted = <<>> THEN <<t>>
    ELSE IF RatGeq(Head(sorted).confidence, t.confidence)
    THEN <<Head(sorted)>> \o InsertByConfidence(t, Tail(sorted))
    ELSE <<t>> \o sorted

RECURSIVE SortByConfidence(_)
\* tables.sort(key=confidence, reverse=True): descending and stable
SortByConfidence(ts) ==
    IF ts = <<>> THEN <<>>
    ELSE InsertByConfidence(ts[Len(ts)], SortByConfidence(SubSeq(ts, 1, Len(ts) - 1)))

\* find_tables(file_path): [] for a missing file and for a workbook that fails
\* to load, else the pooled candidates sorted
find_tables(file_path, file_state) ==
    /\ find_pc = "call"
    /\ find_pc' = IF file_state # "ok" THEN "failed" ELSE "done"
    /\ tables' = IF file_state # "ok" THEN <<>>
                 ELSE SortByConfidence(PooledTables(workbook, file_path))
    /\ UNCHANGED <<workbook, scanned, candidates, col_call>>
    /\ UNCHANGED otherThanFind

\* find_tabular_ranges_by_heuristics_optimized(ws) on the worksheet number i
find_tabular_ranges_by_heuristics_optimized(i) ==
    /\ scanned = 0
    /\ i \in 1..Len(workbook)
    /\ scanned' = i
    /\ candidates' = HeuristicCandidates(workbook[i])
    /\ UNCHANGED <<find_pc, workbook, tables, col_call>>
    /\ UNCHANGED otherThanFind

\* column_string_to_number(col_str), called on its own: the function has no
\* raise and ord() is defined on every character, so it returns on every string
call_column_string_to_number(col_str) ==
    /\ col_call = <<>>
    /\ col_call' = [col_str |-> col_str, raised |-> FALSE,
                    result |-> column_string_to_number(col_str)]
    /\ UNCHANGED <<find_pc, workbook, tables, scanned, candidates>>
    /\ UNCHANGED otherThanFind

(***************************************************************************)
(* The operations of one run that write the prior-period workbook          *)
(* (previous_file).  What the file system does (a load or a save that      *)
(* raises, a copy that fails, a read-only file) is an input e of each      *)
(* operation.  last_call records, for the last operation: how often        *)
(* os.chmod cleared the read-only attribute, whether the workbook was      *)
(* saved, the backup copies that existed at the save, and, for             *)
(* update_file, how each match its loop handled went and which matches     *)
(* were applied.                                                           *)
(***************************************************************************)

\* worksheet_full_replace(source_file, source_sheet, target_file, target_sheet),
\* called for each worksheet of process A before find_tables:
\*   e.test    the write test of the target: "ok", "perm" (PermissionError),
\*             "fail" (a missing file or another exception)
\*   e.retest  after "perm": "ok", "chmod_fails", "load_fails"
\*   e.backup  whether shutil.copy2 wrote the temporary backup
\*   e.load    whether both workbooks load, hold the sheets and the copy works
\*   e.save    target_wb.save: "ok", "perm", "other"
\*   e.resave  after "perm": "ok", "chmod_fails", "save_fails"
\*   e.remove  whether os.remove deletes the temporary backup
worksheet_full_replace(e) ==
    LET cleared1 == IF e.test = "perm" /\ e.retest # "chmod_fails" THEN 1 ELSE 0
        passed == e.test = "ok" \/ (e.test = "perm" /\ e.retest = "ok")
        disk == IF passed /\ e.backup THEN backups \cup {"temp_backup"} ELSE backups
        loaded == passed /\ e.load
        cleared2 == IF loaded /\ e.save = "perm" /\ e.resave # "chmod_fails"
                    THEN 1 ELSE 0
        saved == loaded /\ (e.save = "ok" \/ (e.save = "perm" /\ e.resave = "ok"))
    IN /\ run_pc = "replace"
       /\ find_pc = "call"
       /\ last_call' = [op |-> "worksheet_full_replace",
                        cleared |-> cleared1 + cleared2,
                        saved |-> saved,
                        backed |-> IF saved THEN disk ELSE {},
                        outcomes |-> <<>>,
                        applied |-> {},
                        ok |-> saved]
       /\ backups' = IF saved /\ passed /\ e.backup /\ e.remove
                     THEN disk \ {"temp_backup"} ELSE disk
       /\ UNCHANGED <<run_pc, ws_call, wf_pc, wf_matches, wf_result, findVars>>
       /\ UNCHANGED otherThanRun

\* main.py 876-890 and mark_back_data_red(file_path, back_data_worksheets,
\* tables_info): not called when no worksheet remains for process B
\* (e.remaining); e.outcome is "ok", "load" or "save" (the call that raises);
\* red_cells_info is {} after an exception
mark_back_data_red(e) ==
    /\ run_pc = "replace"
    /\ find_pc \in {"done", "failed"}
    /\ run_pc' = IF e.remaining /\ e.outcome = "ok" THEN "marked" ELSE "unmarked"
    /\ last_call' = IF ~e.remaining THEN last_call
                    ELSE [op |-> "mark_back_data_red",
                          cleared |-> IF e.read_only THEN 1 ELSE 0,
                          saved |-> e.outcome = "ok",
                          backed |-> IF e.outcome = "ok" THEN backups ELSE {},
                          outcomes |-> <<>>,
                          applied |-> {},
                          ok |-> e.outcome = "ok"]
    /\ UNCHANGED <<backups, ws_call, wf_pc, wf_matches, wf_result, findVars>>
    /\ UNCHANGED otherThanRun

\* the loop over matches of update_file: a match whose processing raises
\* ("raises") is left by continue, as is one without source data or without
\* its header in the target table; every other match is applied
\* (update_count += 1)
AppliedMatches(outcomes) == {i \in 1..Len(outcomes) : outcomes[i] = "ok"}

\* update_file(matches, current_pbc_path, previous_ledger_path), one call for
\* a current-period file; outcomes[i] is how match i goes:
\*   e.backup     the copy into Backup/: "ok", "missing" (no target file),
\*                "fails" (makedirs or copy2 raises)
\*   e.load       whether both workbooks load
\*   e.read_only  whether os.stat shows the target without S_IWRITE
\*   e.chmod      whether os.chmod succeeds
\*   e.save       target_wb.save: "ok", "perm", "other"
update_file(outcomes, e) ==
    LET backed == outcomes # <<>> /\ e.backup = "ok"
        disk == IF backed THEN backups \cup {"Backup"} ELSE backups
        applied == IF backed /\ e.load THEN AppliedMatches(outcomes) ELSE {}
        cleared == IF applied # {} /\ e.read_only /\ e.chmod THEN 1 ELSE 0
        saved == applied # {} /\ (e.read_only => e.chmod) /\ e.save = "ok"
    IN /\ run_pc \in {"marked", "unmarked"}
       /\ last_call' = [op |-> "update_file",
                        cleared |-> cleared,
                        saved |-> saved,
                        backed |-> IF saved THEN disk ELSE {},
                        outcomes |-> IF backed /\ e.load THEN outcomes ELSE <<>>,
                        applied |-> applied,
                        ok |-> saved]
       /\ backups' = disk
       /\ UNCHANGED <<run_pc, ws_call, wf_pc, wf_matches, wf_result, findVars>>
       /\ UNCHANGED otherThanRun

\* main.py 962-982 and the file handling of update_rollforward_status
\* (file_updater.py 893-956): called when cells were marked; e as for
\* mark_back_data_red
update_rollforward_status_save(e) ==
    /\ run_pc = "marked"
    /\ run_pc' = "done"
    /\ last_call' = [op |-> "update_rollforward_status",
                     cleared |-> IF e.read_only THEN 1 ELSE 0,
                     saved |-> e.outcome = "ok",
                     backed |-> IF e.outcome = "ok" THEN backups ELSE {},
                     outcomes |-> <<>>,
                     applied |-> {},
                     ok |-> e.outcome = "ok"]
    /\ UNCHANGED <<backups, ws_call, wf_pc, wf_matches, wf_result, findVars>>
    /\ UNCHANGED otherThanRun

(***************************************************************************)
(* find_matching_worksheet_optimized (main.py).  A current-period file is  *)
(* [name, readable, sheets]; a worksheet is [title, ratio], ratio being    *)
(* what difflib.SequenceMatcher gives for the cleaned requested name and   *)
(* the cleaned title.                                                      *)
(***************************************************************************)

\* re.sub of a character class: s without the characters of drop
Without(s, drop) == SelectSeq(s, LAMBDA ch : ch \notin drop)

\* the first filter: worksheet_clean in filename_clean or filename_clean in
\* worksheet_clean
IsPrioritized(worksheet_name, file) ==
    LET worksheet_clean == Without(Lower(worksheet_name), {" ", "-", "_"})
        filename_clean == Without(Lower(file.name), {" ", "-", "_", ".", "x", "l", "s"})
    IN IsSubstring(worksheet_clean, filename_clean)
       \/ IsSubstring(filename_clean, worksheet_clean)

RECURSIVE ScanSheets(_, _, _, _)
\* the loop over wb.worksheets of one file: an exact name ends the call
\* (exact), the weaker matches replace best when their confidence is higher
ScanSheets(worksheet_name, file, sheets, best) ==
    IF sheets = <<>> THEN [exact |-> FALSE, best |-> best]
    ELSE LET ws == Head(sheets)
             clean_target == Without(worksheet_name, {" ", "-", "_"})
             clean_current == Without(ws.title, {" ", "-", "_"})
             hit(c) == [file_path |-> file.name, sheet_name |-> ws.title,
                        confidence |-> c]
             b1 == IF Lower(worksheet_name) = Lower(ws.title)
                      /\ RatGt(Rat(95, 100), best.confidence)
                   THEN hit(Rat(95, 100)) ELSE best
             b2 == IF Lower(clean_target) = Lower(clean_current)
                      /\ RatGt(Rat(9, 10), b1.confidence)
                   THEN hit(Rat(9, 10)) ELSE b1
             \* 0.8 + (similarity - 0.85) * 0.4
             confidence_score == Rat(460 * ws.ratio.den + 400 * ws.ratio.num,
                                     1000 * ws.ratio.den)
             b3 == IF /\ Len(clean_target) > 2
                      /\ Len(clean_current) > 2
                      /\ RatGeq(ws.ratio, Rat(85, 100))
                      /\ RatGt(confidence_score, b2.confidence)
                   THEN hit(confidence_score) ELSE b2
         IN IF worksheet_name = ws.title
            THEN [exact |-> TRUE, best |-> hit(Rat(1, 1))]
            ELSE ScanSheets(worksheet_name, file, Tail(sheets), b3)

RECURSIVE ScanFiles(_, _, _)
\* the loop over files_to_process: a file that cannot be opened is skipped;
\* after a prioritized file the loop ends when best_confidence >= 0.9
ScanFiles(worksheet_name, files, best) ==
    IF files = <<>> THEN best
    ELSE IF ~Head(files).readable THEN ScanFiles(worksheet_name, Tail(files), best)
    ELSE LET r == ScanSheets(worksheet_name, Head(files), Head(files).sheets, best)
         IN IF r.exact THEN r.best
            ELSE IF IsPrioritized(worksheet_name, Head(files))
                    /\ RatGeq(r.best.confidence, Rat(9, 10))
            THEN r.best
            ELSE ScanFiles(worksheet_name, Tail(files), r.best)

\* find_matching_worksheet_optimized(worksheet_name, current_files); the
\* result None is the match with sheet_name <<>>
find_matching_worksheet_optimized(worksheet_name, current_files) ==
    LET no_match == [file_path |-> <<>>, sheet_name |-> <<>>, confidence |-> Rat(0, 1)]
        files_to_process ==
            SelectSeq(current_files, LAMBDA f : IsPrioritized(worksheet_name, f))
            \o SelectSeq(current_files, LAMBDA f : ~IsPrioritized(worksheet_name, f))
        best == IF worksheet_name = <<>> THEN no_match
                ELSE ScanFiles(worksheet_name, files_to_process, no_match)
    IN /\ ws_call = <<>>
       /\ ws_call' = [worksheet_name |-> worksheet_name,
                      current_files |-> current_files,
                      result |-> IF RatGeq(best.confidence, Rat(8, 10))
                                 THEN best ELSE no_match]
       /\ UNCHANGED <<run_pc, backups, last_call, wf_pc, wf_matches, wf_result>>
       /\ UNCHANGED otherThanRun

(***************************************************************************)
(* add_rollforward_complete_workflow (file_updater.py)                     *)
(***************************************************************************)

\* the parameters of update_file(matches, current_pbc_path, previous_ledger_path),
\* none of which has a default
update_file_params == 3

\* the arguments of the workflow's call update_file(target_file, matches)
workflow_update_file_args == 2

\* step 1: red_cells_info = mark_back_data_red(source_file, back_data_sheets,
\* tables_info), marked being what the marking returns
workflow_mark(marked) ==
    /\ wf_pc = "call"
    /\ wf_pc' = "marked"
    /\ red_cells_info' = marked
    /\ st_pc' = "marked"
    /\ UNCHANGED <<successful_matches, status_result, st_error, report>>
    /\ UNCHANGED <<run_pc, backups, last_call, ws_call, wf_matches, wf_result>>
    /\ UNCHANGED <<dimVars, matchVars, findVars, markVars, copyVars>>

\* steps 2 to 4 and the return: a call that does not bind its arguments raises
\* TypeError, which the workflow's except clause turns into the error result
workflow_finish ==
    /\ wf_pc = "marked"
    /\ wf_pc' = "returned"
    /\ IF workflow_update_file_args # update_file_params
       THEN /\ wf_result' = [success |-> FALSE, error |-> "TypeError"]
            /\ UNCHANGED statusVars
       ELSE /\ red_cells_info' = UpdatedCells(red_cells_info, wf_matches)
            /\ successful_matches' = wf_matches
            /\ status_result' = StatusResult(red_cells_info, wf_matches)
            /\ st_error' = "none"
            /\ st_pc' = "reported"
            /\ LET cells == ReportCells(UpdatedCells(red_cells_info, wf_matches),
                                        wf_matches, TRUE)
               IN report' = [canned |-> cells = <<>>, cells |-> cells]
            /\ wf_result' = [success |-> TRUE,
                             status_updated |-> StatusResult(red_cells_info, wf_matches)]
    /\ UNCHANGED <<run_pc, backups, last_call, ws_call, wf_matches>>
    /\ UNCHANGED <<dimVars, matchVars, findVars, markVars, copyVars>>

(***************************************************************************)
(* The marking loops of mark_back_data_red (file_updater.py)               *)
(***************************************************************************)

\* the column loop of one row: the cells appended to red_cells_info[sheet_name]
MarkRow(segs, row, ncols) ==
    SelectSeq([col \in 1..ncols |-> [row |-> row, col |-> col,
                                     value |-> CellValue(segs, row, col),
                                     status |-> "pending"]],
              LAMBDA c : CellHasData(c.value))

RECURSIVE ScanTable(_, _, _, _, _, _)
\* for row in range(data_start_row, data_start_row + 1000): a row without
\* data adds one to the attribute and ends the loop at 5, a row with data
\* sets the attribute to 0; count is the attribute, acc the cells appended
ScanTable(segs, ncols, row, last_row, count, acc) ==
    IF row > last_row THEN [cells |-> acc, count |-> count]
    ELSE LET cs == MarkRow(segs, row, ncols)
         IN IF cs # <<>>
            THEN ScanTable(segs, ncols, row + 1, last_row, 0, acc \o cs)
            ELSE IF count + 1 >= 5 THEN [cells |-> acc, count |-> count + 1]
            ELSE ScanTable(segs, ncols, row + 1, last_row, count + 1, acc)

RECURSIVE MarkTables(_, _, _)
\* for table in sheet_tables: the cells each table appends, in order, and the
\* attribute after the last table
MarkTables(segs, sheet_tables, count) ==
    IF sheet_tables = <<>> THEN [per_table |-> <<>>, count |-> count]
    ELSE LET table == Head(sheet_tables)
             r == ScanTable(segs, Len(table.headers), table.start_row + 1,
                            table.start_row + 1000, count, <<>>)
             rest == MarkTables(segs, Tail(sheet_tables), r.count)
         IN [per_table |-> <<r.cells>> \o rest.per_table, count |-> rest.count]

\* the body of the loop over back_data_worksheets for one worksheet
MarkSheet(sheet, tables_info, attr) ==
    LET sheet_tables == SelectSeq(tables_info, LAMBDA t : t.sheet = sheet.title)
    IN MarkTables(sheet.cells, sheet_tables, attr[sheet.title])

NoMark == [tables_info |-> <<>>, found |-> FALSE, marked |-> <<>>, red_cells_info |-> <<>>]

MaxMarkCalls == 2

\* mark_back_data_red(file_path, back_data_worksheets, tables_info) with every
\* worksheet of the workbook in back_data_worksheets; found says that
\* tables_info is what find_tables returned for the workbook; outcome is "ok",
\* "load" or "save" (the call that raises), and {} is returned after an
\* exception
mark_tables(tables_info, found, outcome) ==
    LET r == [k \in 1..Len(workbook) |-> MarkSheet(workbook[k], tables_info, mk_attr)]
    IN /\ mk_calls < MaxMarkCalls
       /\ mk_calls' = mk_calls + 1
       /\ mk_attr' = IF outcome = "load" THEN mk_attr
                     ELSE [title \in DOMAIN mk_attr |->
                            IF \E k \in 1..Len(workbook) : workbook[k].title = title
                            THEN r[CHOOSE k \in 1..Len(workbook) :
                                        workbook[k].title = title].count
                            ELSE mk_attr[title]]
       /\ mk_last' =
            [tables_info |-> tables_info,
             found |-> found,
             marked |-> IF outcome = "load" THEN <<>>
                        ELSE [k \in 1..Len(workbook) |-> r[k].per_table],
             red_cells_info |->
                IF outcome # "ok" THEN <<>>
                ELSE [k \in 1..Len(workbook) |->
                        [sheet |-> workbook[k].title,
                         cells |-> Flatten(r[k].per_table)]]]
       /\ UNCHANGED <<dimVars, statusVars, matchVars, findVars, runVars, copyVars>>

\* before any call no attribute is set: getattr gives the default 0
MarkIdle ==
    /\ mk_attr = [title \in {"Sheet1", "Sheet2"} |-> 0]
    /\ mk_calls = 0
    /\ mk_last = NoMark

(***************************************************************************)
(* The copy loop of update_file and get_actual_data_from_workbook          *)
(* (file_updater.py)                                                       *)
(***************************************************************************)

RECURSIVE ActualMaxRow(_, _, _, _, _, _)
\* the row loop of calculate_table_dimension with the clamped limit:
\* the actual_max_row it returns
ActualMaxRow(segs, table, limit, row, streak, max_row) ==
    IF row >= table.start_row + 1 + max_scan_rows THEN max_row
    ELSE IF RowHasData(segs, row, Len(table.headers))
    THEN ActualMaxRow(segs, table, limit, row + 1, 0, row)
    ELSE IF StreakEnds(streak + 1, limit) THEN max_row
    ELSE ActualMaxRow(segs, table, limit, row + 1, streak + 1, max_row)

\* get_actual_data_from_workbook(table_info, workbook) on the worksheet of the
\* table: the rows data_start_row .. actual_max_row over the columns
\* 1 .. len(headers), without the rows that hold no data
get_actual_data_from_workbook(table, sheet) ==
    IF table.headers = <<>> THEN <<>>
    ELSE LET last_data_row ==
                ActualMaxRow(sheet.cells, table, ClampLimit(2),
                             table.start_row + 1, 0, table.start_row)
             rows == [i \in 1..(last_data_row - table.start_row) |->
                        [c \in 1..Len(table.headers) |->
                            CellValue(sheet.cells, table.start_row + i, c)]]
         IN SelectSeq(rows, LAMBDA row : \E c \in 1..Len(row) : CellHasData(row[c]))

\* the body of the loop over matches for one match: the calls
\* target_sheet.cell(target_row, target_col, source_value) in order; from_col
\* is the place in the source row the value was taken from
CopyWrites(match, source_sheet) ==
    LET source_data == get_actual_data_from_workbook(match.from_table, source_sheet)
        source_col_idx == IndexOf(match.from_header, match.from_table.headers) - 1
        target_col_idx == IndexOf(match.to_header, match.to_table.headers) - 1
        target_start_row == match.to_table.start_row + 1
        kept == SelectSeq([k \in 1..Len(source_data) |-> k],
                    LAMBDA k : /\ source_col_idx < Len(source_data[k])
                               /\ CellHasData(source_data[k][source_col_idx + 1]))
    IN IF source_data = <<>> \/ ~HeaderIn(match.to_header, match.to_table.headers)
       THEN <<>>
       ELSE [n \in 1..Len(kept) |->
                [row |-> target_start_row + (kept[n] - 1),
                 col |-> target_col_idx + 1,
                 value |-> source_data[kept[n]][source_col_idx + 1],
                 from_col |-> source_col_idx + 1]]

\* the loop over matches of update_file(matches, current_pbc_path,
\* previous_ledger_path) when both workbooks load
update_file_copy ==
    /\ cp_call # <<>>
    /\ cp_call.pc = "matched"
    /\ cp_call' = [cp_call EXCEPT
            !.pc = "done",
            !.writes = [i \in 1..Len(cp_call.matches) |->
                            CopyWrites(cp_call.matches[i], cp_call.source)]]
    /\ UNCHANGED <<dimVars, statusVars, matchVars, findVars, runVars, markVars>>

CopyIdle == cp_call = <<>>

(***************************************************************************)
(* The calls of calculate_table_dimension that are explored                *)
(***************************************************************************)

MaxShortRun == 2

MaxGap == 3

MaxGivenLimit == 3

MaxHeaderRow == 2

MaxDimCols == 2

P_blank == <<None, None, None>>

\* whitespace, then a cell whose read raises, then a value outside two columns
P_space == <<Str(<<" ">>), Err, Num(1)>>

P_zero == <<Num(0), None, None>>

P_col2 == <<None, Str(<<"x">>), None>>

DimRowPool == {P_blank, P_space, P_zero, P_col2}

\* header lists of 0 .. MaxDimCols columns
DimHeaders == {[i \in 1..n |-> <<"h">>] : n \in 0..MaxDimCols}

\* out-of-range and in-range limits, both ends of [1, 10] included
GivenLimits == (0..MaxGivenLimit) \cup {10, 11}

\* a block of rows, a gap, one more row
ShortSheets ==
    {<<[row |-> p, len |-> k], [row |-> q, len |-> g], [row |-> t, len |-> 1]>> :
        p \in DimRowPool, k \in 0..MaxShortRun,
        q \in {P_blank, P_space}, g \in 1..MaxGap,
        t \in {P_zero, P_col2}}

\* a block of rows that reaches or passes the scan cap, a gap or none, one more row
LongSheets ==
    {<<[row |-> P_zero, len |-> k], [row |-> P_blank, len |-> g],
       [row |-> P_zero, len |-> 1]>> :
        k \in {max_scan_rows, max_scan_rows + 1}, g \in 0..MaxGap}

DimIdle ==
    /\ dim_pc = "idle"
    /\ dim_sheet = <<>>
    /\ table_info = [start_row |-> 1, headers |-> <<>>]
    /\ dim_arg_limit = 2
    /\ empty_streak_limit = 2
    /\ row_num = 0
    /\ actual_max_row = 0
    /\ empty_streak = 0

DimInit ==
    /\ dim_pc = "call"
    /\ \/ /\ dim_sheet \in ShortSheets
          /\ table_info \in [start_row : {1, MaxHeaderRow}, headers : DimHeaders]
       \/ /\ dim_sheet \in LongSheets
          /\ table_info = [start_row |-> 1, headers |-> <<<<"h">>>>]
    /\ dim_arg_limit \in GivenLimits
    /\ empty_streak_limit = dim_arg_limit
    /\ row_num = 0
    /\ actual_max_row = 0
    /\ empty_streak = 0

(***************************************************************************)
(* The runs of the status tracker that are explored                        *)
(***************************************************************************)

MaxTrackedCells == 2

MaxMatches == 2

\* sequences of at most n elements of S
SeqsUpTo(S, n) == UNION {[1..k -> S] : k \in 0..n}

PendingCell(r, c) == [row |-> r, col |-> c, value |-> Num(7), status |-> "pending"]

\* the marked cells of Sheet1 and of Sheet2
Sheet1Cells == SeqsUpTo({PendingCell(5, 2), PendingCell(6, 3)}, MaxTrackedCells)

Sheet2Cells == SeqsUpTo({PendingCell(5, 1)}, 1)

\* what mark_back_data_red can have returned: nothing, or pending cells by sheet
MarkedInfos ==
    {<<>>}
    \cup {<<[sheet |-> "Sheet1", cells |-> cs]>> : cs \in Sheet1Cells}
    \cup {<<[sheet |-> "Sheet1", cells |-> cs], [sheet |-> "Sheet2", cells |-> ds]>> :
            cs \in Sheet1Cells, ds \in Sheet2Cells}

\* a match as match_headers builds it: from_table an n-column table of the
\* current-period file, to_table a table of the prior-period file
TableMatch(sheet_name, n, to_sheet) ==
    [from_sheet |-> "", from_row |-> 0, from_col |-> 0,
     from_table |-> [sheet |-> sheet_name, headers |-> [i \in 1..n |-> <<"h">>]],
     to_table |-> [sheet |-> to_sheet, headers |-> [i \in 1..n |-> <<"h">>]]]

CoordinateMatch(sheet_name, r, c) ==
    [from_sheet |-> sheet_name, from_row |-> r, from_col |-> c, from_table |-> NoKey,
     to_table |-> NoKey]

\* a match from a two-column table on the current file's Sheet1 to a table on
\* the prior file's Sheet2, a match from a three-column table on the current
\* file's PBC to a table on the prior file's Sheet1, and one that carries the
\* coordinates Sheet1!C6
MatchPool == {TableMatch("Sheet1", 2, "Sheet2"), TableMatch("PBC", 3, "Sheet1"),
              CoordinateMatch("Sheet1", 6, 3)}

MatchLists == SeqsUpTo(MatchPool, MaxMatches)

StatusIdle ==
    /\ st_pc = "idle"
    /\ red_cells_info = <<>>
    /\ successful_matches = <<>>
    /\ status_result = EmptyResult
    /\ st_error = "none"
    /\ report = [canned |-> FALSE, cells |-> <<>>]

StatusInit ==
    /\ st_pc = "marked"
    /\ red_cells_info \in MarkedInfos
    /\ successful_matches = <<>>
    /\ status_result = EmptyResult
    /\ st_error = "none"
    /\ report = [canned |-> FALSE, cells |-> <<>>]

(***************************************************************************)
(* The calls of the matchers that are explored                             *)
(***************************************************************************)

MaxHeaders == 2

previous_file == "prev.xlsx"

current_file_path == "curr.xlsx"

H_Rev == <<"R", "e", "v">>

\* H_Rev in lower case with a trailing space
H_rev == <<"r", "e", "v", " ">>

H_Cost == <<"C", "o", "s", "t">>

HeaderPool == {H_Rev, H_rev, H_Cost}

HeaderLists == SeqsUpTo(HeaderPool, MaxHeaders)

\* a candidate as find_tables returns it, as far as the matchers read it
Table(file, sheet_name, hs) ==
    [sheet |-> sheet_name, type |-> "heuristic", start_row |-> 1,
     file_path |-> file, headers |-> hs]

\* 'Net Rev'
H_Net_Rev == <<"N", "e", "t", " ", "R", "e", "v">>

\* no table, one table, that table and a second one on another sheet, or a
\* table whose headers are 'Net Rev', 'NetRev' or 'Rev Cost Net', 'rev ', 'Rev'
TableLists(file) ==
    {<<>>}
    \cup {<<Table(file, "Sheet1", hs)>> : hs \in HeaderLists}
    \cup {<<Table(file, "Sheet1", hs), Table(file, "Sheet2", <<H_Cost, H_Rev>>)>> :
            hs \in HeaderLists}
    \cup {<<Table(file, "Sheet1", <<H_Net_Rev, h, H_rev, H_Rev>>)>> :
            h \in {<<"N", "e", "t", "R", "e", "v">>, H_Rev \o <<" ">> \o H_Cost \o <<" ", "N", "e", "t">>}}

Thresholds == {Rat(0, 1), Rat(1, 2), Rat(7, 10), Rat(1, 1)}

MatchIdle ==
    /\ match_pc = "idle"
    /\ previous_tables = <<>>
    /\ current_tables = <<>>
    /\ threshold = Rat(7, 10)
    /\ matches = <<>>

MatchInit ==
    /\ match_pc = "call"
    /\ previous_tables \in TableLists(previous_file)
    /\ current_tables \in TableLists(current_file_path)
    /\ threshold = Rat(7, 10)
    /\ matches = <<>>

MatchNext ==
    \/ match_headers
    \/ \E thr \in Thresholds : enhanced_match_headers(thr)

(***************************************************************************)
(* The calls of the table finder that are explored                         *)
(***************************************************************************)

MaxTop == 2

MaxDataRows == 3

MaxBlankRows == 2

\* the header row ID, Name, Amount
R_header == <<Str(<<"I", "D">>), Str(<<"N", "a", "m", "e">>),
              Str(<<"A", "m", "o", "u", "n", "t">>)>>

R_data == <<Num(1), Str(<<"a">>), Num(5)>>

\* one cell in column E
R_note == <<None, None, None, None, Str(<<"n", "o", "t", "e">>)>>

\* R_header, and a merged header: Q1 over three columns, then Q2
FindHeaderRows == {R_header, <<Str(<<"Q", "1">>), None, None, Str(<<"Q", "2">>)>>}

\* R_data, a row of text values, a row of zeros, a row with one value in three
\* cells, a row that cannot be read
FindDataRows ==
    {R_data,
     <<Str(<<"x">>), Str(<<"y">>), Str(<<"z">>)>>,
     <<Num(0), Num(0), Num(0)>>,
     <<None, None, Num(7)>>,
     <<Num(1), Err, Num(5)>>}

\* nothing, R_note, one cell in column A
FindTailRows == {<<>>, R_note, <<Str(<<"s", "u", "m">>)>>}

\* the numbers of data rows explored: few, and both sides of the 15-row window
DataRowCounts == (0..MaxDataRows) \cup {15, 16}

\* the rows a tail cell stands below the gap that follows the table
FarBelow == 10

\* blank rows, a header row, data rows, a gap, blank rows, one more row
FindSheetCells ==
    {<<[row |-> <<>>, len |-> top], [row |-> h, len |-> 1], [row |-> d, len |-> k],
       [row |-> <<>>, len |-> g], [row |-> <<>>, len |-> FarBelow],
       [row |-> t, len |-> 1]>> :
        top \in 0..MaxTop, h \in FindHeaderRows, d \in FindDataRows, k \in DataRowCounts,
        g \in 1..MaxBlankRows, t \in FindTailRows}

\* a table of two data rows at the top of the sheet, a blank row, one more row
PairedSheetCells ==
    {<<[row |-> h, len |-> 1], [row |-> d, len |-> 2], [row |-> <<>>, len |-> 1],
       [row |-> t, len |-> 1]>> :
        h \in FindHeaderRows, d \in FindDataRows, t \in FindTailRows}

CharsOf_A1C3 == <<"A", "1", ":", "C", "3">>

\* no filter, a filter over three columns, a ref without a colon (A1), a ref
\* with a two-letter column (B2:AA10), a filter whose first row is the row
\* below the table (A4:C5), a ref with a character after the digits (A1:C3x),
\* an absolute ref ($A$1:$C$3)
FilterRefs ==
    {<<>>, CharsOf_A1C3, <<"A", "1">>, <<"B", "2", ":", "A", "A", "1", "0">>,
     <<"A", "4", ":", "C", "5">>, CharsOf_A1C3 \o <<"x">>,
     <<"$", "A", "$", "1", ":", "$", "C", "$", "3">>}

Worksheet(title, cells, ref, sized) ==
    [title |-> title, cells |-> cells, auto_filter |-> ref, sized |-> sized]

\* a second worksheet: a header row and two data rows
SecondSheet(ref, sized) ==
    Worksheet("Sheet2", <<[row |-> R_header, len |-> 1], [row |-> R_data, len |-> 2]>>,
              ref, sized)

MaxMergedCells == 5

\* header rows of valid headers, empty cells and cells holding one space
MergedHeaderRows ==
    [1..MaxMergedCells -> {Str(<<"Q", "1">>), Str(<<"Q", "2">>), None, Str(<<" ">>)}]

\* one worksheet without a filter; one with a filter; one and a second one with
\* a filter; one and a second one whose dimension cannot be calculated; one
\* header row under a filter that is one column wider (A1:F2)
Workbooks ==
    {<<Worksheet("Sheet1", cells, <<>>, TRUE)>> : cells \in FindSheetCells}
    \cup {<<Worksheet("Sheet1", cells, ref, TRUE)>> :
            cells \in PairedSheetCells, ref \in FilterRefs}
    \cup {<<Worksheet("Sheet1", cells, ref, TRUE), SecondSheet(CharsOf_A1C3, TRUE)>> :
            cells \in PairedSheetCells, ref \in FilterRefs}
    \cup {<<Worksheet("Sheet1", cells, CharsOf_A1C3, TRUE), SecondSheet(<<>>, FALSE)>> :
            cells \in {c \in PairedSheetCells : c[4].row = <<>>}}
    \cup {<<Worksheet("Sheet1", <<[row |-> h, len |-> 1]>>,
                      <<"A", "1", ":", Chr(65 + MaxMergedCells), "2">>, TRUE)>> :
            h \in MergedHeaderRows}

FindIdle ==
    /\ find_pc = "idle"
    /\ workbook = <<>>
    /\ tables = <<>>
    /\ scanned = 0
    /\ candidates = <<>>
    /\ col_call = <<>>

FindInit ==
    /\ find_pc = "call"
    /\ workbook \in Workbooks
    /\ tables = <<>>
    /\ scanned = 0
    /\ candidates = <<>>
    /\ col_call = <<>>

FindNext ==
    \/ \E file_state \in {"ok", "missing", "unreadable"} :
            find_tables(previous_file, file_state)
    \/ \E i \in 1..2 : find_tabular_ranges_by_heuristics_optimized(i)

NoCall ==
    [op |-> "none", cleared |-> 0, saved |-> FALSE, backed |-> {}, outcomes |-> <<>>,
     applied |-> {}, ok |-> FALSE]

RunIdle ==
    /\ run_pc = "idle"
    /\ backups = {}
    /\ last_call = NoCall
    /\ ws_call = <<>>
    /\ wf_pc = "idle"
    /\ wf_matches = <<>>
    /\ wf_result = <<>>

\* a run of main.py on a prior-period workbook of two worksheets: process A,
\* find_tables, the marking, update_file for each current-period file, the
\* status update
RunNext ==
    \/ \E e \in {x \in [test : {"ok", "perm", "fail"},
                        retest : {"ok", "chmod_fails", "load_fails"},
                        backup : BOOLEAN, load : BOOLEAN,
                        save : {"ok", "perm", "other"},
                        resave : {"ok", "chmod_fails", "save_fails"},
                        remove : BOOLEAN] :
                    \* what is never asked of the file system is left at one value
                    /\ x.test # "perm" => x.retest = "ok"
                    /\ (x.test = "fail" \/ x.retest # "ok") =>
                            x.backup /\ x.load /\ x.save = "ok"
                    /\ ~x.load => x.save = "ok"
                    /\ x.save # "perm" => x.resave = "ok"
                    /\ (~x.backup \/ x.save = "other" \/ x.resave # "ok") => x.remove} :
            worksheet_full_replace(e)
    \/ \E file_state \in {"ok", "missing"} : find_tables(previous_file, file_state)
    \/ \E e \in {x \in [remaining : BOOLEAN, read_only : BOOLEAN,
                        outcome : {"ok", "load", "save"}] :
                    ~x.remaining => ~x.read_only /\ x.outcome = "ok"} :
            mark_back_data_red(e)
    \/ \E outcomes \in SeqsUpTo({"ok", "raises"}, MaxMatches),
          e \in {x \in [backup : {"ok", "missing", "fails"}, load : BOOLEAN,
                        read_only : BOOLEAN, chmod : BOOLEAN,
                        save : {"ok", "perm", "other"}] :
                    /\ x.backup # "ok" => x.load
                    /\ ~x.load => ~x.read_only
                    /\ ~x.read_only => x.chmod
                    /\ ~x.chmod => x.save = "ok"} :
            update_file(outcomes, e)
    \/ \E e \in [read_only : BOOLEAN, outcome : {"ok", "load", "save"}] :
            update_rollforward_status_save(e)

StatusNext ==
    \/ \E succ \in MatchLists, outcome \in {"none", "load", "save"} :
            update_rollforward_status(succ, outcome)
    \/ \E loaded \in BOOLEAN : generate_manual_adjustment_report(loaded)

Init == StatusInit /\ DimIdle /\ MatchIdle /\ FindIdle /\ RunIdle /\ MarkIdle /\ CopyIdle

Next == StatusNext

\* the status tracker, called as a library
Spec == Init /\ [][Next]_vars

\* calculate_table_dimension on the explored sheets
InitDim == DimInit /\ StatusIdle /\ MatchIdle /\ FindIdle /\ RunIdle /\ MarkIdle /\ CopyIdle

InitMatch == MatchInit /\ StatusIdle /\ DimIdle /\ FindIdle /\ RunIdle /\ MarkIdle /\ CopyIdle

InitFind == FindInit /\ StatusIdle /\ DimIdle /\ MatchIdle /\ RunIdle /\ MarkIdle /\ CopyIdle

\* match_headers and enhanced_match_headers on the explored tables
SpecMatch == InitMatch /\ [][MatchNext]_vars

SpecDim == InitDim /\ [][DimNext]_vars

\* find_tables and the heuristic scan on the explored workbooks
SpecFind == InitFind /\ [][FindNext]_vars

MaxColLen == 3

\* column_string_to_number on the strings of at most MaxColLen characters
\* taken from upper-case letters, a lower-case letter, a digit, "$" and " "
ColNext ==
    \E col_str \in SeqsUpTo({"A", "B", "Z", "a", "1", "$", " "}, MaxColLen) :
        call_column_string_to_number(col_str)

InitCol == FindIdle /\ StatusIdle /\ DimIdle /\ MatchIdle /\ RunIdle /\ MarkIdle /\ CopyIdle

SpecCol == InitCol /\ [][ColNext]_vars

MaxFiles == 2

MaxSheets == 2

\* the requested worksheet name
N_Data == <<"D", "a", "t", "a">>

\* worksheets 'Data', 'DATA', 'Da ta', 'Dat' and 'Cost' with the ratios of
\* SequenceMatcher against 'data' (1, 1, 1, 6/7, 1/4)
SheetPool ==
    {[title |-> N_Data, ratio |-> Rat(1, 1)],
     [title |-> <<"D", "A", "T", "A">>, ratio |-> Rat(1, 1)],
     [title |-> <<"D", "a", " ", "t", "a">>, ratio |-> Rat(1, 1)],
     [title |-> <<"D", "a", "t">>, ratio |-> Rat(6, 7)],
     [title |-> <<"C", "o", "s", "t">>, ratio |-> Rat(1, 4)]}

\* files 'data.xlsx' and 'pbc.xlsx', readable or not
FilePool ==
    {[name |-> n, readable |-> r, sheets |-> ss] :
        n \in {Lower(N_Data) \o <<".", "x", "l", "s", "x">>,
                <<"p", "b", "c", ".", "x", "l", "s", "x">>},
        r \in BOOLEAN,
        ss \in SeqsUpTo(SheetPool, MaxSheets) \ {<<>>}}

WsNext ==
    \E current_files \in SeqsUpTo(FilePool, MaxFiles) :
        find_matching_worksheet_optimized(N_Data, current_files)

InitWs == RunIdle /\ FindIdle /\ StatusIdle /\ DimIdle /\ MatchIdle /\ MarkIdle /\ CopyIdle

SpecWs == InitWs /\ [][WsNext]_vars

FlowNext ==
    \/ \E marked \in MarkedInfos : workflow_mark(marked)
    \/ workflow_finish

\* a call of the workflow with a list of matches
InitFlow ==
    /\ FindIdle /\ StatusIdle /\ DimIdle /\ MatchIdle /\ MarkIdle /\ CopyIdle
    /\ run_pc = "idle"
    /\ backups = {}
    /\ last_call = NoCall
    /\ ws_call = <<>>
    /\ wf_pc = "call"
    /\ wf_matches \in MatchLists
    /\ wf_result = <<>>

SpecFlow == InitFlow /\ [][FlowNext]_vars

MaxMarkRows == 3

\* a header row and rows with or without data below it, with or without a
\* filter, alone or followed by a second worksheet
MarkWorkbooks ==
    {<<Worksheet("Sheet1", <<[row |-> R_header, len |-> 1]>> \o rows, ref, TRUE)>> \o second :
        rows \in [1..MaxMarkRows -> {[row |-> R_data, len |-> 1], [row |-> <<>>, len |-> 1]}],
        ref \in {<<>>, CharsOf_A1C3},
        second \in {<<>>, <<SecondSheet(<<>>, TRUE)>>}}

\* tables of the prior-period file on Sheet1 with the header in row 1 or 2
MarkTablePool ==
    {[sheet |-> "Sheet1", start_row |-> r, headers |-> hs] :
        r \in 1..2, hs \in {<<H_Rev, H_Cost>>, <<H_Rev, H_Cost, H_rev>>}}

\* calls of mark_back_data_red with the tables find_tables returns for the
\* workbook, and with given tables
MarkNext ==
    \/ \E outcome \in {"ok", "load", "save"} :
            mark_tables(SortByConfidence(PooledTables(workbook, previous_file)),
                        TRUE, outcome)
    \/ \E tables_info \in SeqsUpTo(MarkTablePool, 2) :
            mark_tables(tables_info, FALSE, "ok")

InitMark ==
    /\ StatusIdle /\ DimIdle /\ MatchIdle /\ RunIdle /\ MarkIdle /\ CopyIdle
    /\ find_pc = "call"
    /\ workbook \in MarkWorkbooks
    /\ tables = <<>>
    /\ scanned = 0
    /\ candidates = <<>>
    /\ col_call = <<>>

SpecMark == InitMark /\ [][MarkNext]_vars

\* the k-th data row of the copied tables
CopyRow(k) == <<Num(k), Str(<<"a">>), Num(k + 5)>>

\* a table with the header ID, Name, Amount in row 1 and two or three data
\* rows, the third below gap empty rows, the table standing shift columns to
\* the right of column A
CopyCells(shift, gap, third) ==
    LET pad == [c \in 1..shift |-> None]
    IN <<[row |-> pad \o R_header, len |-> 1],
         [row |-> pad \o CopyRow(1), len |-> 1],
         [row |-> pad \o CopyRow(2), len |-> 1],
         [row |-> <<>>, len |-> gap]>>
       \o (IF third THEN <<[row |-> pad \o CopyRow(3), len |-> 1]>> ELSE <<>>)

MaxShift == 1

MaxCopyGap == 1

CopySheets ==
    {Worksheet("Sheet1", CopyCells(shift, gap, third), ref, TRUE) :
        shift \in 0..MaxShift, gap \in 0..MaxCopyGap, third \in BOOLEAN,
        ref \in {<<>>, CharsOf_A1C3}}

\* main.py before update_file: find_tables on the prior-period file, then on
\* the current-period file; found_tables holds the two lists in that order
find_file_tables ==
    /\ cp_call # <<>>
    /\ cp_call.pc = "call"
    /\ Len(cp_call.found_tables) < 2
    /\ LET first == cp_call.found_tables = <<>>
       IN cp_call' = [cp_call EXCEPT !.found_tables =
            Append(@, SortByConfidence(PooledTables(
                        <<IF first THEN cp_call.target ELSE cp_call.source>>,
                        IF first THEN previous_file ELSE current_file_path)))]
    /\ UNCHANGED <<dimVars, statusVars, matchVars, findVars, runVars, markVars>>

\* match_headers(previous_tables, current_tables) on the two lists
match_found_tables ==
    /\ cp_call # <<>>
    /\ cp_call.pc = "call"
    /\ Len(cp_call.found_tables) = 2
    /\ cp_call' = [cp_call EXCEPT
            !.pc = "matched",
            !.matches = ExactMatches(cp_call.found_tables[1], cp_call.found_tables[2])]
    /\ UNCHANGED <<dimVars, statusVars, matchVars, findVars, runVars, markVars>>

CopyNext == find_file_tables \/ match_found_tables \/ update_file_copy

\* the worksheets of the current-period file and of the prior-period file
InitCopy ==
    /\ StatusIdle /\ DimIdle /\ MatchIdle /\ FindIdle /\ RunIdle /\ MarkIdle
    /\ cp_call \in
        {[source |-> src, target |-> tgt, pc |-> "call", found_tables |-> <<>>,
          matches |-> <<>>, writes |-> <<>>] : src \in CopySheets, tgt \in CopySheets}

SpecCopy == InitCopy /\ [][CopyNext]_vars

\* the start of a run on a workbook of two worksheets
InitRun ==
    /\ find_pc = "call"
    /\ workbook \in {wb \in Workbooks :
            /\ Len(wb) = 2
            /\ wb[1].cells[1].row = R_header
            /\ wb[1].cells[2].row \in {R_data, <<Num(1), Err, Num(5)>>}
            /\ wb[1].cells[4].row = <<>>}
    /\ tables = <<>>
    /\ scanned = 0
    /\ candidates = <<>>
    /\ col_call = <<>>
    /\ run_pc = "replace"
    /\ backups = {}
    /\ last_call = NoCall
    /\ ws_call = <<>>
    /\ wf_pc = "idle"
    /\ wf_matches = <<>>
    /\ wf_result = <<>>
    /\ StatusIdle /\ DimIdle /\ MatchIdle /\ MarkIdle /\ CopyIdle

\* the operations of a run that write the prior-period workbook
SpecRun == InitRun /\ [][RunNext]_vars

(***************************************************************************)
(* C1: the blank-streak property of calculate_table_dimension              *)
(***************************************************************************)

\* the distinct rows found among rows a .. b of the sheet
RowsIn(segs, a, b) ==
    {segs[i].row : i \in {j \in 1..Len(segs) :
        /\ segs[j].len > 0
        /\ SegFirst(segs, j) <= b
        /\ SegFirst(segs, j) + segs[j].len - 1 >= a}}
    \cup (IF a <= b /\ b > SumLen(segs) THEN {<<>>} ELSE {})

\* a cell that is neither None nor a whitespace-only string nor unreadable
NonBlankCell(v) ==
    \/ v.t = "num"
    \/ v.t = "str" /\ \E i \in 1..Len(v.s) : ~IsSpace(v.s[i])

\* the row has a non-blank cell in columns 1 .. n
NonBlankRow(row, n) == \E c \in 1..n : c <= Len(row) /\ NonBlankCell(row[c])

\* the effective limit L of the claim
EffectiveLimit == IF dim_arg_limit \in 1..10 THEN dim_arg_limit ELSE 2

\* rows header_row+1 .. header_row+k are non-blank, the next L rows are blank
\* (the block's last row and the row after it are looked at first)
BlockThenBlanks(k) ==
    LET hr == table_info.start_row
        n == Len(table_info.headers)
    IN /\ k > 0 => NonBlankRow(RowAt(dim_sheet, hr + k), n)
       /\ ~NonBlankRow(RowAt(dim_sheet, hr + k + 1), n)
       /\ \A row \in RowsIn(dim_sheet, hr + 1, hr + k) : NonBlankRow(row, n)
       /\ \A row \in RowsIn(dim_sheet, hr + k + 1, hr + k + EffectiveLimit) :
              ~NonBlankRow(row, n)

\* the block lengths a sheet can have: no block passes the sheet's last row
BlockLengths == 0..SumLen(dim_sheet)

\* C1 as claimed: whenever k non-blank rows are followed by L blank rows, the
\* function returns header_row + k, for every k
C1_AnyBlock ==
    dim_pc = "done" =>
        \A k \in BlockLengths :
            BlockThenBlanks(k) => actual_max_row = table_info.start_row + k

\* C1 amended: the same for every block of at most max_scan_rows (1000) rows
C1_BlockWithinCap ==
    dim_pc = "done" =>
        \A k \in BlockLengths :
            k <= max_scan_rows /\ BlockThenBlanks(k)
                => actual_max_row = table_info.start_row + k

\* a block of one or more rows, L blank rows, then more data further down
C1_Witness ==
    /\ dim_pc = "done"
    /\ \E k \in 1..max_scan_rows :
        /\ BlockThenBlanks(k)
        /\ actual_max_row = table_info.start_row + k
        /\ \E row \in RowsIn(dim_sheet, table_info.start_row + k + EffectiveLimit + 1,
                             table_info.start_row + k + EffectiveLimit + MaxGap + 1) :
               NonBlankRow(row, Len(table_info.headers))

(***************************************************************************)
(* C2, C3: the status tracker                                              *)
(***************************************************************************)

\* the tracked cells as a set of <<entry index, cell index>> positions
CellPositions(info) ==
    {<<k, i>> : k \in 1..Len(info), i \in 1..MaxTrackedCells} \cap
    {p \in (1..Len(info)) \X (1..MaxTrackedCells) : p[2] <= Len(info[p[1]].cells)}

StatusAt(info, p) == info[p[1]].cells[p[2]].status

\* C2 as claimed: a cell that is completed or failed keeps that status in every
\* later step, whatever list a further status update is given
C2_StatusTerminal ==
    [][\A p \in CellPositions(red_cells_info) :
          StatusAt(red_cells_info, p) \in {"completed", "failed"}
              => StatusAt(red_cells_info', p) = StatusAt(red_cells_info, p)]_vars

\* the addresses the report lists
ReportedAddresses == {report.cells[i].cell_address : i \in 1..Len(report.cells)}

\* the addresses of the tracked cells with the given status
AddressesWithStatus(st) ==
    {CellAddress(red_cells_info[p[1]].sheet,
                 red_cells_info[p[1]].cells[p[2]].row,
                 red_cells_info[p[1]].cells[p[2]].col) :
        p \in {q \in CellPositions(red_cells_info) : StatusAt(red_cells_info, q) = st}}

\* the report was generated after a status update that ran to its end
ReportAfterUpdate == st_pc = "reported" /\ st_error = "none"

\* C3 as claimed: the report lists exactly the failed cells, and is the canned
\* message exactly when no tracked cell is failed
C3_ReportListsFailed ==
    ReportAfterUpdate =>
        /\ ReportedAddresses = AddressesWithStatus("failed")
        /\ report.canned <=> AddressesWithStatus("failed") = {}

(***************************************************************************)
(* C4, C5, C6: the matchers                                                *)
(***************************************************************************)

\* the number of entries of the sequence seq equal to x
Occurrences(x, seq) == Cardinality({i \in 1..Len(seq) : seq[i] = x})

\* the matches emitted for header h and the pair (prev_table p, curr_table c)
MatchesFor(h, p, c) ==
    {k \in 1..Len(matches) :
        /\ matches[k].from_table = c
        /\ matches[k].to_table = p
        /\ matches[k].from_header = h}

\* the (destination, source) table pairs of the call, and a header of both
SharedHeaders ==
    {x \in (1..Len(previous_tables)) \X (1..Len(current_tables)) \X HeaderPool :
        /\ Occurrences(x[3], previous_tables[x[1]].headers) > 0
        /\ Occurrences(x[3], current_tables[x[2]].headers) > 0}

\* every match for h is h -> h with confidence 1.0
ExactShape(h, p, c) ==
    \A k \in MatchesFor(h, p, c) :
        /\ matches[k].to_header = h
        /\ matches[k].confidence = Rat(1, 1)

\* C4 as claimed: a header of both tables gets exactly one match for the pair,
\* duplicates in either header list allowed
C4_ExactlyOneMatch ==
    match_pc = "exact" =>
        \A x \in SharedHeaders :
            LET p == previous_tables[x[1]]
                c == current_tables[x[2]]
            IN /\ Cardinality(MatchesFor(x[3], p, c)) = 1
               /\ ExactShape(x[3], p, c)

\* C4 amended: a header of both tables gets one match for the pair per occurrence
\* in the source table's header list, so exactly one when it occurs once there
C4_OneMatchPerSourceOccurrence ==
    match_pc = "exact" =>
        \A x \in SharedHeaders :
            LET p == previous_tables[x[1]]
                c == current_tables[x[2]]
            IN /\ Cardinality(MatchesFor(x[3], p, c)) = Occurrences(x[3], c.headers)
               /\ ExactShape(x[3], p, c)

\* a header that stands once in the source list and twice in the destination
\* list has got its single match
C4_Witness ==
    /\ match_pc = "exact"
    /\ \E x \in SharedHeaders :
        /\ Occurrences(x[3], current_tables[x[2]].headers) = 1
        /\ Occurrences(x[3], previous_tables[x[1]].headers) = 2
        /\ Cardinality(MatchesFor(x[3], previous_tables[x[1]],
                                  current_tables[x[2]])) = 1

\* C5: in exact mode every match joins a header of its source table to a header
\* of its destination table, the strings being equal character by character, and
\* tables that share no header string give no match
C5_NoFalseMatches ==
    match_pc = "exact" =>
        /\ \A k \in 1..Len(matches) :
            /\ \E i \in 1..Len(matches[k].from_table.headers) :
                   matches[k].from_table.headers[i] = matches[k].from_header
            /\ \E i \in 1..Len(matches[k].to_table.headers) :
                   matches[k].to_table.headers[i] = matches[k].to_header
        /\ SharedHeaders = {} => matches = <<>>

\* two tables whose headers differ only in case or in a trailing space were
\* compared, and nothing was matched
C5_Witness ==
    /\ match_pc = "exact"
    /\ matches = <<>>
    /\ \E i \in 1..Len(previous_tables), j \in 1..Len(current_tables) :
        \E a \in 1..Len(previous_tables[i].headers),
           b \in 1..Len(current_tables[j].headers) :
            /\ previous_tables[i].headers[a] # current_tables[j].headers[b]
            /\ Lower(Strip(previous_tables[i].headers[a]))
                   = Lower(Strip(current_tables[j].headers[b]))

\* C6 as claimed: whichever matcher ran, every match leads from a
\* current-period table to a prior-period table
C6_DataFlowDirection ==
    match_pc \in {"exact", "enhanced"} =>
        \A k \in 1..Len(matches) :
            /\ matches[k].from_table.file_path = current_file_path
            /\ Occurrences(matches[k].from_header, matches[k].from_table.headers) > 0
            /\ matches[k].to_table.file_path = previous_file
            /\ Occurrences(matches[k].to_header, matches[k].to_table.headers) > 0

(***************************************************************************)
(* C7, C8, C9: the confidence of the candidates and the order of the list  *)
(***************************************************************************)

\* 0.0 <= confidence <= 0.95
WithinHeuristicBounds(c) ==
    RatGeq(c.confidence, Rat(0, 1)) /\ RatGeq(Rat(95, 100), c.confidence)

\* the positions of the candidates of one detection method in the returned list
TablesOfType(type) == {i \in 1..Len(tables) : tables[i].type = type}

\* C7: every candidate of the heuristic detection, returned by the scan itself
\* or through find_tables, has 0.0 <= confidence <= 0.95, and every
\* filter-range candidate of find_tables has confidence exactly 0.8
C7_ConfidenceBounds ==
    /\ \A i \in 1..Len(candidates) : WithinHeuristicBounds(candidates[i])
    /\ \A i \in TablesOfType("heuristic") : WithinHeuristicBounds(tables[i])
    /\ \A i \in TablesOfType("autofilter_range") :
            tables[i].confidence = Rat(8, 10)

\* a scan has returned candidates and find_tables a list with both kinds
C7_Witness ==
    /\ scanned # 0
    /\ candidates # <<>>
    /\ find_pc = "done"
    /\ TablesOfType("heuristic") # {}
    /\ TablesOfType("autofilter_range") # {}

\* C8: in the list of one detection pass, every filter-range candidate has a
\* strictly higher confidence than every heuristic candidate
C8_FilterRangeAboveHeuristic ==
    \A i \in TablesOfType("autofilter_range"), j \in TablesOfType("heuristic") :
        RatGt(tables[i].confidence, tables[j].confidence)

\* the candidates of both methods from all worksheets, as find_tables meets them
CandidatesOfAllSheets ==
    PooledTables(workbook, previous_file)

\* C9: the list find_tables returns holds exactly the candidates of both
\* methods from all worksheets, each as often as it was detected, and every
\* candidate's confidence is >= the confidence of the one behind it
C9_PooledAndSorted ==
    find_pc = "done" =>
        /\ Len(tables) = Len(CandidatesOfAllSheets)
        /\ \A i \in 1..Len(tables) :
                Occurrences(tables[i], tables)
                    = Occurrences(tables[i], CandidatesOfAllSheets)
        /\ \A i \in 1..(Len(tables) - 1) :
                RatGeq(tables[i].confidence, tables[i + 1].confidence)

\* a returned list with candidates of both methods and of two worksheets whose
\* order is not the order of detection
C9_Witness ==
    /\ find_pc = "done"
    /\ TablesOfType("heuristic") # {}
    /\ TablesOfType("autofilter_range") # {}
    /\ \E i, j \in 1..Len(tables) : tables[i].sheet # tables[j].sheet
    /\ tables # CandidatesOfAllSheets

(***************************************************************************)
(* C10: the clean detection scenario                                       *)
(***************************************************************************)

\* no cell of the row holds a value
BlankRow(row) == \A c \in 1..Len(row) : row[c].t = "none"

\* the cell holds a number or a string that is not blank
Populated(v) == v.t = "num" \/ (v.t = "str" /\ Strip(v.s) # <<>>)

\* the sheet holds nothing above row r, a header row of at least 3 text cells
\* at row r, k populated rows of the header's width below it, and then blank
\* rows down to FarBelow rows under the table
CleanTableAt(segs, r, k) ==
    LET header == RowAt(segs, r)
    IN /\ \A row \in RowsIn(segs, 1, r - 1) : BlankRow(row)
       /\ Len(header) >= 3
       /\ \A c \in 1..Len(header) : IsText(header[c])
       /\ \A row \in RowsIn(segs, r + 1, r + k) :
            Len(row) = Len(header) /\ \A c \in 1..Len(row) : Populated(row[c])
       /\ \A row \in RowsIn(segs, r + k + 1, r + k + FarBelow) : BlankRow(row)

\* the text values of the row, in column order
TextValues(row) == [c \in 1..Len(row) |-> row[c].s]

\* C10: on a worksheet with a single clean table at row r with k data rows,
\* 2 <= k <= 15, the heuristic scan returns exactly one candidate, with
\* start_row = r, end_row = r + k and the header row's text values as headers
C10_CleanDetection ==
    scanned # 0 =>
        \A r \in 1..(MaxTop + 1), k \in 2..15 :
            CleanTableAt(workbook[scanned].cells, r, k) =>
                /\ Len(candidates) = 1
                /\ candidates[1].start_row = r
                /\ candidates[1].end_row = r + k
                /\ candidates[1].headers = TextValues(RowAt(workbook[scanned].cells, r))

(***************************************************************************)
(* C11: candidates without headers                                         *)
(***************************************************************************)

\* C11: find_tables never returns a candidate whose headers list is empty
C11_NoEmptyHeaders ==
    \A i \in 1..Len(tables) : tables[i].headers # <<>>

(***************************************************************************)
(* C12: merged-header inference                                            *)
(***************************************************************************)

\* the worksheet of the workbook that a returned candidate stands on
SheetOf(c) == workbook[CHOOSE k \in 1..Len(workbook) : workbook[k].title = c.sheet]

\* the cells of the first row of a filter range
FilterHeaderCells(c) ==
    [i \in 1..(c.end_col - c.start_col + 1) |->
        CellValue(SheetOf(c).cells, c.start_row, c.start_col + i - 1)]

\* a header cell without a value or with a value that is blank
IsBlankHeader(v) == v.t \in {"none", "err"} \/ (v.t = "str" /\ Strip(v.s) = <<>>)

\* the positions left of i that hold a valid header
ValidLeftOf(cells, i) == {j \in 1..(i - 1) : ~IsBlankHeader(cells[j])}

\* rule (i): the next cell is also blank
NextIsBlank(cells, i) == i + 1 <= Len(cells) /\ IsBlankHeader(cells[i + 1])

\* rule (ii): a valid header within the previous 1 to 3 cells, blanks between
ValidWithinThree(cells, i) ==
    \E j \in ValidLeftOf(cells, i) :
        i - j <= 3 /\ \A k \in (j + 1)..(i - 1) : IsBlankHeader(cells[k])

\* what the claimed rules give for cell i, <<>> for an omitted cell
ClaimedHeaderAt(cells, i) ==
    IF ~IsBlankHeader(cells[i]) THEN Strip(PyStr(cells[i]))
    ELSE IF ValidLeftOf(cells, i) # {}
            /\ (NextIsBlank(cells, i) \/ ValidWithinThree(cells, i))
    THEN Strip(PyStr(cells[SetMax(ValidLeftOf(cells, i))]))
    ELSE <<>>

ClaimedHeaders(cells) ==
    SelectSeq([i \in 1..Len(cells) |-> ClaimedHeaderAt(cells, i)], LAMBDA h : h # <<>>)

\* C12: the headers of a filter-range candidate are the valid headers of the
\* range's first row in column order, a blank cell repeating the last valid
\* header to its left when the next cell is blank or a valid header lies within
\* the previous 1 to 3 cells with only blanks between, and being omitted
\* otherwise
C12_MergedHeaderInference ==
    \A i \in TablesOfType("autofilter_range") :
        tables[i].headers = ClaimedHeaders(FilterHeaderCells(tables[i]))

(***************************************************************************)
(* C13, C14: similarity mode                                               *)
(***************************************************************************)

\* the matches emitted for the header h of the destination (prior-period) table p
DestinationMatches(p, h) ==
    {k \in 1..Len(matches) : matches[k].from_table = p /\ matches[k].from_header = h}

\* the positions <<table, column>> of the source headers
SourcePositions ==
    {x \in (1..Len(current_tables)) \X (1..MaxHeaders) :
        x[2] <= Len(current_tables[x[1]].headers)}

\* the score of destination header h against the source header at position x
ScoreAt(h, x) == simple_similarity_match(h, current_tables[x[1]].headers[x[2]])

\* x is met before y: by source table, then by column
MetBefore(x, y) == x[1] < y[1] \/ (x[1] = y[1] /\ x[2] < y[2])

\* the source position that scores best for h, the first one met among equals
BestSourceFor(h) ==
    CHOOSE x \in SourcePositions :
        \A y \in SourcePositions \ {x} :
            \/ RatGt(ScoreAt(h, x), ScoreAt(h, y))
            \/ RatEq(ScoreAt(h, x), ScoreAt(h, y)) /\ MetBefore(x, y)

\* C13: similarity mode emits, for a header of a destination table, at most one
\* match per occurrence of the header in that table, and a match names the
\* best-scoring source header over all source tables, the first met on a tie
C13_OneBestMatchPerDestinationHeader ==
    match_pc = "enhanced" =>
        \A i \in 1..Len(previous_tables) :
            \A a \in 1..Len(previous_tables[i].headers) :
                LET p == previous_tables[i]
                    h == p.headers[a]
                IN /\ Cardinality(DestinationMatches(p, h)) <= Occurrences(h, p.headers)
                   /\ \A k \in DestinationMatches(p, h) :
                        LET x == BestSourceFor(h)
                        IN /\ matches[k].to_table = current_tables[x[1]]
                           /\ matches[k].to_header = current_tables[x[1]].headers[x[2]]
                           /\ matches[k].confidence = ScoreAt(h, x)

\* the scores of destination header h against the headers of source table c
ScoresIn(h, c) == {simple_similarity_match(h, c.headers[b]) : b \in 1..Len(c.headers)}

\* C14: for a destination header h and one source table c, similarity mode
\* emits a match if and only if some header of c scores >= threshold against
\* h; the matched header then has the highest score in c, and the match's
\* confidence is that score
C14_MatchIffAtLeastThreshold ==
    match_pc = "enhanced" =>
        \A i \in 1..Len(previous_tables), j \in 1..Len(current_tables) :
            \A a \in 1..Len(previous_tables[i].headers) :
                LET h == previous_tables[i].headers[a]
                    c == current_tables[j]
                    emitted == {k \in DestinationMatches(previous_tables[i], h) :
                                    matches[k].to_table = c}
                IN /\ emitted # {} <=> \E sc \in ScoresIn(h, c) : RatGeq(sc, threshold)
                   /\ \A k \in emitted :
                        /\ matches[k].confidence
                                = simple_similarity_match(h, matches[k].to_header)
                        /\ Occurrences(matches[k].to_header, c.headers) > 0
                        /\ \A sc \in ScoresIn(h, c) : RatGeq(matches[k].confidence, sc)

(***************************************************************************)
(* C15: the coverage rule of the status tracker                            *)
(***************************************************************************)

\* some successful match carries the coordinates of the cell
HasCoordinateMatch(sheet_name, cell) ==
    \E i \in 1..Len(successful_matches) :
        /\ successful_matches[i].from_sheet = sheet_name
        /\ successful_matches[i].from_row = cell.row
        /\ successful_matches[i].from_col = cell.col

\* some successful match targets a table on the cell's own sheet of the
\* prior-period workbook that is wide enough for the cell's column
HasTableMatchOnOwnSheet(sheet_name, cell) ==
    \E i \in 1..Len(successful_matches) :
        /\ successful_matches[i].to_table.sheet = sheet_name
        /\ cell.col <= Len(successful_matches[i].to_table.headers)

\* C15: after update_rollforward_status a cell is completed only if a
\* successful match carries its coordinates or targets a table on its own
\* sheet that spans its column; every other cell is failed
C15_CoverageRule ==
    (st_pc = "updated" /\ st_error = "none") =>
        \A p \in CellPositions(red_cells_info) :
            LET sheet_name == red_cells_info[p[1]].sheet
                cell == red_cells_info[p[1]].cells[p[2]]
            IN IF HasCoordinateMatch(sheet_name, cell)
                  \/ HasTableMatchOnOwnSheet(sheet_name, cell)
               THEN cell.status \in {"completed", "failed"}
               ELSE cell.status = "failed"

(***************************************************************************)
(* C16: a backup exists at every save of the prior-period workbook         *)
(***************************************************************************)

\* C16: whenever an operation of the run (worksheet_full_replace,
\* mark_back_data_red, update_file, update_rollforward_status) has saved the
\* prior-period workbook, a backup copy of that workbook written earlier in
\* the run existed at the moment of the save.
C16_BackupBeforeSave == last_call.saved => last_call.backed # {}

(***************************************************************************)
(* C17: a failing worksheet or match does not stop the others              *)
(***************************************************************************)

\* the candidates of the list ts that stand on the worksheet
OnSheet(ts, title) == SelectSeq(ts, LAMBDA t : t.sheet = title)

\* the worksheet has a unit that fails: a filter range that cannot be parsed,
\* or a row that cannot be read
HasFailingUnit(sheet) ==
    \/ sheet.auto_filter # <<>> /\ ~parse_excel_range(sheet.auto_filter).ok
    \/ \E j \in 1..Len(sheet.cells) :
            sheet.cells[j].len > 0 /\ RowRaises(sheet.cells[j].row)

C18_ClearedAtMostOnce ==
    last_call.op \in {"worksheet_full_replace", "update_file"} => last_call.cleared <= 1

(***************************************************************************)
(* C19: the shape of a returned candidate                                  *)
(***************************************************************************)

\* C19: every candidate returned by find_tables has start_row <= end_row,
\* carries start_col and end_col, and has exactly end_col - start_col + 1
\* headers.
C19_CandidateInvariant ==
    find_pc = "done" =>
        \A i \in 1..Len(tables) :
            /\ tables[i].start_row <= tables[i].end_row
            /\ {"start_col", "end_col"} \subseteq DOMAIN tables[i]
            /\ Len(tables[i].headers) = tables[i].end_col - tables[i].start_col + 1

(***************************************************************************)
(* C20: the size of the heuristic scan window                              *)
(***************************************************************************)

\* C20: the window of rows min_row .. scan_max_rows and of columns
\* min_col .. scan_max_cols that find_tabular_ranges_by_heuristics_optimized
\* reads from the worksheet it was given has at most 1000 rows and at most 50
\* columns, for a worksheet with a known dimension and for one without.
C20_ScanWindowCap ==
    scanned # 0 =>
        LET w == ScanWindow(workbook[scanned])
        IN /\ w.scan_max_rows - w.min_row + 1 <= 1000
           /\ w.scan_max_cols - w.min_col + 1 <= 50

(***************************************************************************)
(* C21: parse_excel_range on the filter refs given to find_tables          *)
(***************************************************************************)

\* upper-case letters, then digits, and nothing else
LettersThenDigits(s) ==
    \E k \in 1..(Len(s) - 1) :
        /\ \A i \in 1..k : \E j \in 1..26 : Letters[j] = s[i]
        /\ \A i \in (k + 1)..Len(s) : \E j \in 1..10 : Digits[j] = s[i]

\* <letters><digits>:<letters><digits>
RangeForm(s) ==
    \E c \in 2..(Len(s) - 1) :
        /\ s[c] = ":"
        /\ LettersThenDigits(SubSeq(s, 1, c - 1))
        /\ LettersThenDigits(SubSeq(s, c + 1, Len(s)))

\* the letters of a corner read as a base-26 number with A = 1, and its
\* digits read as a decimal number
CornerOf(s) ==
    LET k == CHOOSE n \in 1..Len(s) :
                /\ \A i \in 1..n : \E j \in 1..26 : Letters[j] = s[i]
                /\ \E j \in 1..10 : Digits[j] = s[n + 1]
        Value(i, alphabet, base, last) ==
            (CHOOSE j \in 1..Len(alphabet) : alphabet[j] = s[i]) * base ^ (last - i)
        Total(from, to, alphabet, base, shift) ==
            LET f[i \in (from - 1)..to] ==
                    IF i < from THEN 0
                    ELSE f[i - 1] + Value(i, alphabet, base, to)
                                  - shift * base ^ (to - i)
            IN f[to]
    IN [col |-> Total(1, k, Letters, 26, 0),
        row |-> Total(k + 1, Len(s), Digits, 10, 1)]

\* the box the claim gives for a ref of the form <letters><digits>:<letters><digits>
ClaimedBox(s) ==
    LET c == CHOOSE i \in 1..Len(s) : s[i] = ":"
        a == CornerOf(SubSeq(s, 1, c - 1))
        b == CornerOf(SubSeq(s, c + 1, Len(s)))
    IN [start_row |-> a.row, end_row |-> b.row, start_col |-> a.col, end_col |-> b.col]

\* the boxes of the filter-range candidates that find_tables returned for a
\* worksheet: those that parse_excel_range returned for its filter ref
ParsedBoxes(sheet) ==
    {[start_row |-> tables[i].start_row, end_row |-> tables[i].end_row,
      start_col |-> tables[i].start_col, end_col |-> tables[i].end_col] :
        i \in {j \in TablesOfType("autofilter_range") : tables[j].sheet = sheet.title}}

\* C21: parse_excel_range, called by find_tables on the filter ref of a
\* worksheet, returns for a ref of the form <letters><digits>:<letters><digits>
\* the two row numbers and the base-26 column numbers of its corners, and fails
\* (so that no filter-range candidate is made) for every other ref.
C21_ParseExcelRange ==
    find_pc = "done" =>
        \A k \in 1..Len(workbook) :
            workbook[k].auto_filter # <<>> =>
                ParsedBoxes(workbook[k])
                    = IF RangeForm(workbook[k].auto_filter)
                      THEN {ClaimedBox(workbook[k].auto_filter)}
                      ELSE {}

(***************************************************************************)
(* C22: column_string_to_number on input that is not alphabetic            *)
(***************************************************************************)

\* C22: column_string_to_number fails, and returns no number, for a string
\* that holds a character other than a letter.
C22_RejectsNonAlphabetic ==
    (/\ col_call # <<>>
     /\ \E i \in 1..Len(col_call.col_str) :
            /\ \A j \in 1..26 : Letters[j] # col_call.col_str[i]
            /\ \A j \in 1..26 : LowerLetters[j] # col_call.col_str[i])
        => col_call.raised

(***************************************************************************)
(* C23: the score of simple_similarity_match                               *)
(***************************************************************************)

\* the string in lower case
Folded(s) ==
    [i \in 1..Len(s) |->
        IF \E k \in 1..26 : Letters[k] = s[i]
        THEN LowerLetters[CHOOSE k \in 1..26 : Letters[k] = s[i]]
        ELSE s[i]]

\* the string without its spaces
WithoutSpaces(s) == SelectSeq(s, LAMBDA ch : ch # " ")

\* the string without the spaces before its first and after its last
\* character that is no space
WithoutOuterSpaces(s) ==
    LET inked == {i \in 1..Len(s) : s[i] # " "}
    IN IF inked = {} THEN <<>>
       ELSE SubSeq(s, CHOOSE i \in inked : \A j \in inked : i <= j,
                      CHOOSE i \in inked : \A j \in inked : i >= j)

\* x occurs in y
OccursIn(x, y) == \E i \in 1..(Len(y) - Len(x) + 1) : \A k \in 1..Len(x) : y[i + k - 1] = x[k]

\* the whitespace-delimited words of s
WordSet(s) ==
    {SubSeq(s, i, j) : <<i, j>> \in
        {p \in (1..Len(s)) \X (1..Len(s)) :
            /\ p[1] <= p[2]
            /\ \A k \in p[1]..p[2] : s[k] # " "
            /\ p[1] > 1 => s[p[1] - 1] = " "
            /\ p[2] < Len(s) => s[p[2] + 1] = " "}}

\* the score the claim gives, x and y being a and b with case and spaces ignored
ClaimedScore(a, b, x, y) ==
    LET shared == WordSet(Folded(a)) \cap WordSet(Folded(b))
        larger == IF Cardinality(WordSet(Folded(a))) >= Cardinality(WordSet(Folded(b)))
                  THEN Cardinality(WordSet(Folded(a)))
                  ELSE Cardinality(WordSet(Folded(b)))
    IN IF x = y THEN Rat(1, 1)
       ELSE IF OccursIn(x, y) \/ OccursIn(y, x) THEN Rat(8, 10)
       ELSE IF shared = {} THEN Rat(0, 1)
       ELSE Rat(Cardinality(shared), larger)

\* the pairs of headers that enhanced_match_headers compares, both ways round
ComparedPairs ==
    LET prev == UNION {{previous_tables[i].headers[k] :
                            k \in 1..Len(previous_tables[i].headers)} :
                       i \in 1..Len(previous_tables)}
        curr == UNION {{current_tables[i].headers[k] :
                            k \in 1..Len(current_tables[i].headers)} :
                       i \in 1..Len(current_tables)}
    IN (prev \X curr) \cup (curr \X prev)

ExactNameExists ==
    \E i \in 1..Len(ws_call.current_files) :
        /\ ws_call.current_files[i].readable
        /\ \E k \in 1..Len(ws_call.current_files[i].sheets) :
                ws_call.current_files[i].sheets[k].title = ws_call.worksheet_name

\* C24: find_matching_worksheet_optimized returns a worksheet of exactly the
\* requested name, with confidence 1.0, whenever a readable file holds one,
\* whatever the order of the files and the weaker matches; and a match it
\* returns never has a confidence below 0.8.
C24_ExactNameFirst ==
    ws_call # <<>> =>
        /\ ExactNameExists =>
            /\ ws_call.result.sheet_name = ws_call.worksheet_name
            /\ RatEq(ws_call.result.confidence, Rat(1, 1))
        /\ ws_call.result.sheet_name # <<>> =>
                RatGeq(ws_call.result.confidence, Rat(8, 10))

(***************************************************************************)
(* C25: the complete workflow                                              *)
(***************************************************************************)

\* C25: when add_rollforward_complete_workflow has returned, the status update
\* has run after the marking: no cell the workflow marked is still pending,
\* and the result reports success.
C25_WorkflowCompletes ==
    (/\ wf_pc = "returned"
     /\ \E k \in 1..Len(red_cells_info) : red_cells_info[k].cells # <<>>) =>
        /\ wf_result.success
        /\ \A k \in 1..Len(red_cells_info) :
             \A i \in 1..Len(red_cells_info[k].cells) :
                red_cells_info[k].cells[i].status # "pending"

(***************************************************************************)
(* C26: the returned counts and the cell states                            *)
(***************************************************************************)

\* the tracked cells with status st, as (sheet index, cell index) pairs
CellsWithStatus(st) ==
    UNION {{<<k, i>> : i \in {j \in 1..Len(red_cells_info[k].cells) :
                                red_cells_info[k].cells[j].status = st}} :
           k \in 1..Len(red_cells_info)}

\* C26: after any call of update_rollforward_status, also one that ends in an
\* error, green_cells is the number of tracked cells whose status is
\* completed, red_cells the number whose status is failed, and
\* manual_adjustment_needed holds exactly one record per failed cell.
C26_CountsAgreeWithStates ==
    st_pc \in {"updated", "reported"} =>
        /\ status_result.green_cells = Cardinality(CellsWithStatus("completed"))
        /\ status_result.red_cells = Cardinality(CellsWithStatus("failed"))
        /\ Len(status_result.manual_adjustment_needed)
                = Cardinality(CellsWithStatus("failed"))
        /\ \A p \in CellsWithStatus("failed") :
                Cardinality({n \in 1..Len(status_result.manual_adjustment_needed) :
                    status_result.manual_adjustment_needed[n]
                        = AdjustmentEntry(red_cells_info[p[1]].cells[p[2]],
                                          red_cells_info[p[1]].sheet)}) >= 1

(***************************************************************************)
(* C27: the marking of a table depends on the table's own rows only        *)
(***************************************************************************)

\* the tables of tables_info that stand on the worksheet number k
TablesOn(k) == SelectSeq(mk_last.tables_info, LAMBDA t : t.sheet = workbook[k].title)

\* the cells of a table that the claim has marked: the scan of the table's
\* rows with a count of consecutive rows without data that starts at zero
MarkedAlone(k, table) ==
    ScanTable(workbook[k].cells, Len(table.headers), table.start_row + 1,
              table.start_row + 1000, 0, <<>>).cells

\* C27: in every call of mark_back_data_red, the cells marked for a table are
\* those its own rows give when the count of consecutive rows without data
\* starts at zero: the scan stops only after 5 such rows in a row (or after
\* 1000 rows), whatever tables and calls were processed before on the sheet.
C27_MarkingPerTable ==
    \A k \in 1..Len(mk_last.marked) :
        \A t \in 1..Len(mk_last.marked[k]) :
            mk_last.marked[k][t] = MarkedAlone(k, TablesOn(k)[t])

(***************************************************************************)
(* C30: a destination cell is tracked once                                 *)
(***************************************************************************)

\* C30: when mark_back_data_red is given the candidates find_tables returned
\* for the workbook, the red_cells_info it builds holds each (sheet, row, col)
\* at most once.
C30_TrackedCellsUnique ==
    mk_last.found =>
        \A k \in 1..Len(mk_last.red_cells_info) :
            LET cells == mk_last.red_cells_info[k].cells
            IN \A i, j \in 1..Len(cells) :
                    (cells[i].row = cells[j].row /\ cells[i].col = cells[j].col)
                        => i = j

(***************************************************************************)
(* C28: the rows of the copy                                               *)
(***************************************************************************)

\* the rows below the header that calculate_table_dimension gives the table
DataRowsOf(table, sheet) ==
    1..(ActualMaxRow(sheet.cells, table, ClampLimit(2), table.start_row + 1,
                     0, table.start_row) - table.start_row)

\* C28: for every match update_file applies, a value is written i rows below
\* the destination header exactly when it stands i rows below the source
\* header, in the column the values are read from, for every data row i of
\* the source table.
C28_RowAlignment ==
    (cp_call # <<>> /\ cp_call.pc = "done") =>
        \A m \in 1..Len(cp_call.matches) :
            LET src == cp_call.matches[m].from_table
                dst == cp_call.matches[m].to_table
                ws == cp_call.writes[m]
            IN /\ \A n \in 1..Len(ws) :
                    ws[n].value = CellValue(cp_call.source.cells,
                                            src.start_row + (ws[n].row - dst.start_row),
                                            ws[n].from_col)
               /\ \A i \in DataRowsOf(src, cp_call.source) :
                    LET v == CellValue(cp_call.source.cells, src.start_row + i,
                                       IndexOf(cp_call.matches[m].from_header, src.headers))
                    IN CellHasData(v) =>
                        \E n \in 1..Len(ws) :
                            ws[n].row = dst.start_row + i /\ ws[n].value = v

(***************************************************************************)
(* C29: the columns of the copy                                            *)
(***************************************************************************)

\* the sheet columns of the header row of a table in which the header stands
HeaderColumns(header, table, sheet) ==
    {c \in 1..Len(RowAt(sheet.cells, table.start_row)) :
        LET v == CellValue(sheet.cells, table.start_row, c)
        IN CellHasData(v) /\ Strip(PyStr(v)) = header}

\* C29: for every match update_file applies whose headers stand in the header
\* rows of their tables, every value written is read from the sheet column of
\* the source header and written into the sheet column of the destination
\* header, and the value below the source header is written, wherever the
\* tables start.
C29_ColumnAlignment ==
    (cp_call # <<>> /\ cp_call.pc = "done") =>
        \A m \in 1..Len(cp_call.matches) :
            LET match == cp_call.matches[m]
                from_cols == HeaderColumns(match.from_header, match.from_table,
                                           cp_call.source)
                to_cols == HeaderColumns(match.to_header, match.to_table,
                                         cp_call.target)
                ws == cp_call.writes[m]
            IN (from_cols # {} /\ to_cols # {}) =>
                /\ \A n \in 1..Len(ws) :
                        /\ ws[n].from_col \in from_cols
                        /\ ws[n].col \in to_cols
                /\ \E n \in 1..Len(ws) :
                        \E c \in from_cols :
                            ws[n].value = CellValue(cp_call.source.cells,
                                                    match.from_table.start_row + 1, c)

====
